---- MODULE Spec2Model ----
(***************************************************************************)
(* A model of the robo-advisor's quantitative engines:                     *)
(*   backend/engines/risk_engine.py       (risk assessment engines)        *)
(*   backend/engines/portfolio_engine.py  (portfolio engines)              *)
(*   backend/engines/notebook_engline.py  (notebook algorithms)            *)
(*   backend/engines/data_engine.py       (fund data, cache, metrics)      *)
(*   backend/models/questionnaire.py      (questionnaire records)          *)
(*   backend/api/routes.py                (the handlers of the blueprint)  *)
(*                                                                         *)
(* One object is constructed (Init): an engine, a questionnaire, or the    *)
(* api module; a data engine comes with its cache directory and the clock. *)
(* Then its methods are called any number of times, or a factory replaces  *)
(* the engine; every call is one atomic action that                        *)
(* records the arguments in `call`, what the minimizer answered in         *)
(* `solver`, the files it opened or operated on in `opened` and what it    *)
(* returned or raised in `result`.  `seen` is the call a caller keeps to   *)
(* compare later calls with (SpecHistory).                                 *)
(*                                                                         *)
(* Numbers.  Python floats are modelled as exact rationals over fixed      *)
(* denominators, so that no rounding of the model decides a property:      *)
(*   risk aversion      tenths            (1.5 is 15)                      *)
(*   section weights    tenths            (0.5 is 5)                       *)
(*   portfolio weights  1/Scale           (0.01 is 2, 1.0 is 200)          *)
(*   mean returns       hundredths        (0.08 is 8)                      *)
(*   covariances        hundredths        (0.04 is 4)                      *)
(*   volatilities       1/(10*Scale)      (sqrt of w'Cw, rounded down)     *)
(* A weight vector that the code divides by a float (renormalisation,      *)
(* scaling) is kept as numerators `num` over one common denominator `den`. *)
(***************************************************************************)
EXTENDS Integers, Sequences, FiniteSets, TLC

VARIABLES engine, call, solver, result, opened, seen

vars == <<engine, call, solver, result, opened, seen>>

(***************************************************************************)
(* Bounds of the model.                                                    *)
(***************************************************************************)
\* longest response list handed to a list-based risk engine
MaxResponses == 3
\* largest answer value of a questionnaire response (answers are 0..MaxAnswer)
MaxAnswer == 5
\* number of assets of the universe
NumAssets == 3
\* largest number of points of a frontier curve
MaxPoints == 2
\* largest number of sections, and of questions, of a questionnaire
MaxItems == 2
\* largest number of periods of a return series
MaxPeriods == 3

(***************************************************************************)
(* Python helpers.                                                         *)
(***************************************************************************)
Max(a, b) == IF a >= b THEN a ELSE b

Abs(a) == IF a >= 0 THEN a ELSE 0 - a

\* sum(list)
RECURSIVE SumSeq(_)
SumSeq(s) == IF s = <<>> THEN 0 ELSE Head(s) + SumSeq(Tail(s))

\* sum(dict.values()), the dict given as a function
RECURSIVE SumOver(_, _)
SumOver(f, S) ==
    IF S = {} THEN 0
    ELSE LET k == CHOOSE x \in S : TRUE IN f[k] + SumOver(f, S \ {k})

SumValues(d) == SumOver(d, DOMAIN d)

\* list[i] with Python's 0-based index: negative indices count from the end,
\* anything else out of range raises IndexError (modelled as "IndexError")
PyInRange(s, i) == i >= 0 - Len(s) /\ i < Len(s)

PyIndex(s, i) == IF i >= 0 THEN s[i + 1] ELSE s[Len(s) + i + 1]

(***************************************************************************)
(* risk_engine.py                                                          *)
(***************************************************************************)
\* the constants of WeightedScoreRiskEngine.assess_risk
FinalScoreBase == 96
AggressiveMin == 76
GrowthMin == 61
ModerateMin == 46
ConservativeMin == 31
AggressiveRA == 15
GrowthRA == 25
ModerateRA == 35
ConservativeRA == 60
VeryConservativeRA == 120
\* the survey the comment of assess_risk describes: 16 questions
SurveyQuestions == 16

Profile(n, lo, hi, ra) ==
    [name |-> n, min_score |-> lo, max_score |-> hi, risk_aversion |-> ra]

\* the profile test of the scan: min_score <= score <= max_score, the score
\* a rational num/den
InBand(p, num, den) ==
    num >= p.min_score * den /\ num <= p.max_score * den

\* for profile in config["profiles"]: return the first profile in band;
\* after the loop: return config["profiles"][0]
RECURSIVE ScanFrom(_, _, _, _)
ScanFrom(profiles, i, num, den) ==
    IF i > Len(profiles) THEN 0
    ELSE IF InBand(profiles[i], num, den) THEN i
    ELSE ScanFrom(profiles, i + 1, num, den)

\* a fault: the fallback is the last configured profile
MutScanProfilesLast(profiles, num, den) ==
    LET hit == ScanFrom(profiles, 1, num, den)
        p == IF hit = 0 THEN profiles[Len(profiles)] ELSE profiles[hit]
    IN  [kind |-> "ok", profile |-> p.name, risk_aversion |-> p.risk_aversion]

ScanProfiles(profiles, num, den) ==
    LET hit == ScanFrom(profiles, 1, num, den)
    IN  IF hit = 0 /\ Len(profiles) = 0
        THEN [kind |-> "error", error |-> "IndexError"]
        ELSE LET p == IF hit = 0 THEN profiles[1] ELSE profiles[hit]
             IN  [kind |-> "ok", profile |-> p.name,
                  risk_aversion |-> p.risk_aversion]

\* SimpleScoreRiskEngine.assess_risk
SimpleScore_assess_risk(config, responses) ==
    LET total_score == SumSeq(responses)
    IN  ScanProfiles(config.profiles, total_score, 1)

\* a fault: the band thresholds are exclusive
MutWeightedBands(responses) ==
    LET final_score == FinalScoreBase - SumValues(responses)
    IN  IF final_score > AggressiveMin
        THEN [kind |-> "ok", profile |-> "Aggressive", risk_aversion |-> AggressiveRA]
        ELSE IF final_score > GrowthMin
        THEN [kind |-> "ok", profile |-> "Growth-Oriented", risk_aversion |-> GrowthRA]
        ELSE IF final_score > ModerateMin
        THEN [kind |-> "ok", profile |-> "Moderate", risk_aversion |-> ModerateRA]
        ELSE IF final_score > ConservativeMin
        THEN [kind |-> "ok", profile |-> "Conservative", risk_aversion |-> ConservativeRA]
        ELSE [kind |-> "ok", profile |-> "Very Conservative",
              risk_aversion |-> VeryConservativeRA]

\* WeightedScoreRiskEngine.assess_risk: responses is a dict
WeightedScore_assess_risk(responses) ==
    LET scores_total == SumValues(responses)
        final_score == FinalScoreBase - scores_total
    IN  IF final_score >= AggressiveMin
        THEN [kind |-> "ok", profile |-> "Aggressive", risk_aversion |-> AggressiveRA]
        ELSE IF final_score >= GrowthMin
        THEN [kind |-> "ok", profile |-> "Growth-Oriented", risk_aversion |-> GrowthRA]
        ELSE IF final_score >= ModerateMin
        THEN [kind |-> "ok", profile |-> "Moderate", risk_aversion |-> ModerateRA]
        ELSE IF final_score >= ConservativeMin
        THEN [kind |-> "ok", profile |-> "Conservative", risk_aversion |-> ConservativeRA]
        ELSE [kind |-> "ok", profile |-> "Very Conservative",
              risk_aversion |-> VeryConservativeRA]

\* first loop of SectionBasedRiskEngine.assess_risk: the dict section_scores,
\* keyed by section name (a later section of the same name overwrites)
SectionResponsesOk(section, responses) ==
    \A k \in 1..Len(section.question_indices) :
        PyInRange(responses, section.question_indices[k])

SectionSum(section, responses) ==
    SumSeq([k \in 1..Len(section.question_indices) |->
                PyIndex(responses, section.question_indices[k])])

RECURSIVE SectionScores(_, _, _)
SectionScores(sections, responses, i) ==
    IF i = 0 THEN [n \in {} |-> 0]
    ELSE LET before == SectionScores(sections, responses, i - 1)
             name == sections[i].name
         IN  [n \in (DOMAIN before) \cup {name} |->
                 IF n = name THEN SectionSum(sections[i], responses)
                 ELSE before[n]]

\* a fault: every section weighs 1.0
MutWeightedSectionScoresUnweighted(sections, responses) ==
    LET section_scores == SectionScores(sections, responses, Len(sections))
    IN  [i \in 1..Len(sections) |-> section_scores[sections[i].name] * 10]

\* second loop: weighted_section_scores, in tenths
WeightedSectionScores(sections, responses) ==
    LET section_scores == SectionScores(sections, responses, Len(sections))
    IN  [i \in 1..Len(sections) |->
            section_scores[sections[i].name] * sections[i].weight]

\* SectionBasedRiskEngine.assess_risk
SectionBased_assess_risk(config, responses) ==
    IF \E i \in 1..Len(config.sections) :
           ~SectionResponsesOk(config.sections[i], responses)
    THEN [kind |-> "error", error |-> "IndexError"]
    ELSE LET final_score ==
                 SumSeq(WeightedSectionScores(config.sections, responses))
         IN  ScanProfiles(config.profiles, final_score, 10)

(***************************************************************************)
(* The methods on the two shapes a caller's responses come in: a list     *)
(* (form "list") or a dict keyed by the question ids, which are strings    *)
(* (form "dict"; the model keeps the values in question order).            *)
(***************************************************************************)
\* sum(responses) of a dict adds its keys to 0: TypeError unless it is empty
SimpleScoreRiskEngine_assess_risk(config, form, responses) ==
    IF form = "dict" /\ responses # <<>>
    THEN [kind |-> "error", error |-> "TypeError"]
    ELSE SimpleScore_assess_risk(config, responses)

\* responses.values(): a list has no such attribute; self.config is not read
WeightedScoreRiskEngine_assess_risk(config, form, responses) ==
    IF form = "list"
    THEN [kind |-> "error", error |-> "AttributeError"]
    ELSE WeightedScore_assess_risk(responses)

\* a fault: a question without a response counts 0 and the scan goes on
MutSectionMissingAsZero(config, form, responses) ==
    LET padded == [k \in 1..SurveyQuestions |->
                      IF k <= Len(responses) THEN responses[k] ELSE 0]
    IN  SectionBased_assess_risk(config, padded)

\* responses[i] with an int i: no key of a dict of question ids is an int
SectionBasedRiskEngine_assess_risk(config, form, responses) ==
    IF /\ form = "dict"
       /\ \E i \in 1..Len(config.sections) :
              config.sections[i].question_indices # <<>>
    THEN [kind |-> "error", error |-> "KeyError"]
    ELSE SectionBased_assess_risk(config, responses)

(***************************************************************************)
(* Asset statistics handed to the portfolio engines: mean_returns (a       *)
(* Series indexed by asset) and cov_matrix (a DataFrame), in hundredths.   *)
(***************************************************************************)
\* one unit of weight is 1/Scale
Scale == 2 * 100

Assets == 1..NumAssets

\* a universe of risky assets, and the same universe with asset 1 riskless
RiskyMarket ==
    [mean |-> [i \in Assets |-> 4 + 4 * i],
     cov  |-> [i \in Assets |-> [j \in Assets |->
                  IF i = j THEN (i + 1) * (i + 1) ELSE 1]]]

CashMarket ==
    [mean |-> [i \in Assets |-> IF i = 1 THEN 3 ELSE 4 + 4 * i],
     cov  |-> [i \in Assets |-> [j \in Assets |->
                  IF i = 1 \/ j = 1 THEN 0
                  ELSE IF i = j THEN (i + 1) * (i + 1) ELSE 1]]]

Markets == {RiskyMarket, CashMarket}

\* statistics that are not a covariance matrix: cov[1][2] # cov[2][1]
SkewedMarket ==
    [mean |-> RiskyMarket.mean,
     cov  |-> [i \in Assets |-> [j \in Assets |->
                  IF i = 1 /\ j = 2 THEN 2
                  ELSE IF i = 2 /\ j = 1 THEN 0
                  ELSE RiskyMarket.cov[i][j]]]]

\* np.sum(mean_returns * weights) over the index K of the weights
Dot(mean, w, K) == SumOver([i \in K |-> mean[i] * w[i]], K)

\* a fault: the covariances between different assets are left out
MutQuadDiagonal(cov, w, K) ==
    SumOver([i \in K |-> w[i] * cov[i][i] * w[i]], K)

\* np.dot(weights.T, np.dot(cov, weights)) over the index K
Quad(cov, w, K) ==
    SumOver([i \in K |-> w[i] * SumOver([j \in K |-> cov[i][j] * w[j]], K)], K)

\* np.sqrt, rounded down to the unit
RECURSIVE SqrtBetween(_, _, _)
SqrtBetween(n, lo, hi) ==
    IF hi - lo <= 1 THEN lo
    ELSE LET mid == (lo + hi) \div 2
         IN  IF mid * mid <= n THEN SqrtBetween(n, mid, hi)
             ELSE SqrtBetween(n, lo, mid)

\* (46340 is the largest root whose square is a 32-bit integer)
Sqrt(n) == SqrtBetween(n, 0, IF n < 46340 THEN n + 1 ELSE 46340)

\* portfolio_return, portfolio_volatility and sharpe_ratio of the weights
\* w[i]/den, i in K, each a rational num/den
PortfolioReturn(mkt, w, K, den) ==
    [num |-> Dot(mkt.mean, w, K), den |-> 100 * den]

PortfolioVolatility(mkt, w, K, den) ==
    [num |-> Sqrt(Quad(mkt.cov, w, K)), den |-> 10 * den]

\* portfolio_return / portfolio_volatility if portfolio_volatility > 0 else 0
SharpeRatio(mkt, w, K) ==
    IF Quad(mkt.cov, w, K) > 0
    THEN [num |-> Dot(mkt.mean, w, K), den |-> 10 * Sqrt(Quad(mkt.cov, w, K))]
    ELSE [num |-> 0, den |-> 1]

\* U = r - (A/2) * variance at the weights x/Scale, A in tenths
Utility(mkt, risk_aversion, x) ==
    [num |-> 20 * Scale * Dot(mkt.mean, x, Assets)
                 - risk_aversion * Quad(mkt.cov, x, Assets),
     den |-> 2000 * Scale * Scale]

(***************************************************************************)
(* scipy.optimize.minimize(method='SLSQP', bounds, constraints): the       *)
(* constrained minimizer, an external primitive.  It returns an            *)
(* OptimizeResult with a success flag and the last iterate x.  When it     *)
(* reports success, x satisfies the bounds and the equality constraint     *)
(* sum(x) = 1; when it does not, nothing is known about x.                 *)
(***************************************************************************)
\* the weights an iterate may hold, in units of 1/Scale
WeightGrid ==
    {0 - Scale \div 2, 0, 1, 2, Scale \div 2, Scale - 2, Scale - 1, Scale}

Iterates == [Assets -> WeightGrid]

SumW(x) == SumOver(x, DOMAIN x)

InBounds(x, lo, hi) == \A i \in DOMAIN x : lo <= x[i] /\ x[i] <= hi

\* bounds = (-1, 1) per asset if allow_short else (0, 1)
LowerBound(allow_short) == IF allow_short THEN 0 - Scale ELSE 0

Minimize(lo, hi) ==
    {[success |-> TRUE, x |-> x] :
        x \in {y \in Iterates : SumW(y) = Scale /\ InBounds(y, lo, hi)}}
    \cup {[success |-> FALSE, x |-> x] : x \in Iterates}

(***************************************************************************)
(* portfolio_engine.py                                                     *)
(***************************************************************************)
\* config.get("min_allocation_threshold", 0.01): the default, 0.01
DefaultMinAllocation == 2
\* config.get("base_volatility", 0.12): the default, in hundredths
DefaultBaseVolatility == 12

ConfigGet(config, key, default) ==
    IF key \in DOMAIN config THEN config[key] ELSE default

Restrict(f, K) == [i \in K |-> f[i]]

\* the statistics of the weights w[i]/den, i in K
Stats(mkt, w, K, den) ==
    [return       |-> PortfolioReturn(mkt, w, K, den),
     volatility   |-> PortfolioVolatility(mkt, w, K, den),
     sharpe_ratio |-> SharpeRatio(mkt, w, K)]

\* a fault: a weight equal to the threshold is dropped too
MutSignificantStrict(x, min_allocation) ==
    {i \in DOMAIN x : x[i] > min_allocation}

\* a fault: the filter compares the size of a position, so that a short
\* position of at least the threshold is kept
MutSignificantBySize(x, min_allocation) ==
    {i \in DOMAIN x : x[i] >= min_allocation \/ 0 - x[i] >= min_allocation}

\* optimal_weights[optimal_weights >= min_allocation]
Significant(x, min_allocation) ==
    {i \in DOMAIN x : x[i] >= min_allocation}

\* filtered_weights / filtered_weights.sum()
Renormalize(x, K) ==
    [num |-> Restrict(x, K), den |-> SumOver(x, K)]

\* MeanVarianceEngine.optimize_portfolio, after minimize returned res
MeanVariance_optimize_portfolio(config, mkt, risk_aversion, res) ==
    LET optimal_weights == res.x
        min_allocation ==
            ConfigGet(config, "min_allocation_threshold", DefaultMinAllocation)
        K == Significant(optimal_weights, min_allocation)
    IN  IF min_allocation > 0 /\ K # {}
        THEN LET filtered_weights == Renormalize(optimal_weights, K)
                 st == Stats(mkt, filtered_weights.num, K, filtered_weights.den)
             IN  [kind         |-> "ok",
                  weights      |-> filtered_weights,
                  full_weights |-> [num |-> optimal_weights, den |-> Scale],
                  return       |-> st.return,
                  volatility   |-> st.volatility,
                  sharpe_ratio |-> st.sharpe_ratio,
                  utility      |-> Utility(mkt, risk_aversion, res.x)]
        ELSE LET st == Stats(mkt, optimal_weights, Assets, Scale)
             IN  [kind         |-> "ok",
                  weights      |-> [num |-> optimal_weights, den |-> Scale],
                  return       |-> st.return,
                  volatility   |-> st.volatility,
                  sharpe_ratio |-> st.sharpe_ratio,
                  utility      |-> Utility(mkt, risk_aversion, res.x)]

\* a fault: the residual is not clamped at 0
MutCashWeightUnclamped(scaled_num, den) == den - SumW(scaled_num)

\* cash_weight = max(0, 1 - scaled_weights.sum()), over the denominator den
CashWeight(scaled_num, den) == Max(0, den - SumW(scaled_num))

\* RiskParityEngine.optimize_portfolio, after minimize returned res.
\* target_volatility = base_volatility / risk_aversion raises
\* ZeroDivisionError for risk_aversion 0.  With V the volatility in units,
\* scaling_factor = (base * Scale) / (risk_aversion * V), or 1 when V = 0,
\* so the scaled weights are x[i] * base over risk_aversion * V.
RiskParity_optimize_portfolio(config, mkt, risk_aversion, res) ==
    LET optimal_weights == res.x
        st == Stats(mkt, optimal_weights, Assets, Scale)
        V == st.volatility.num
        base == ConfigGet(config, "base_volatility", DefaultBaseVolatility)
        positive == Quad(mkt.cov, optimal_weights, Assets) > 0
        fnum == IF positive THEN base ELSE 1
        fden == IF positive THEN risk_aversion * V ELSE Scale
        scaled == [i \in Assets |-> optimal_weights[i] * fnum]
    IN  IF risk_aversion = 0
        THEN [kind |-> "error", error |-> "ZeroDivisionError"]
        ELSE [kind         |-> "ok",
              weights      |-> [num |-> scaled, den |-> fden],
              cash_weight  |-> [num |-> CashWeight(scaled, fden), den |-> fden],
              scaling      |-> [num |-> fnum * Scale, den |-> fden],
              return       |-> [num |-> st.return.num * fnum,
                                den |-> 100 * fden],
              volatility   |-> [num |-> V * fnum, den |-> 10 * fden],
              sharpe_ratio |-> st.sharpe_ratio,
              risk_contribution |->
                  [num |-> [i \in Assets |-> optimal_weights[i] *
                               SumOver([j \in Assets |->
                                   mkt.cov[i][j] * optimal_weights[j]], Assets)],
                   den |-> 10 * Scale * V]]

\* a fault: a later preset at the same distance replaces the earlier one
RECURSIVE MutSelectPresetLast(_, _, _, _, _)
MutSelectPresetLast(portfolios, risk_aversion, i, portfolio, min_distance) ==
    IF i > Len(portfolios) THEN portfolio
    ELSE LET distance == Abs(portfolios[i].risk_aversion - risk_aversion)
         IN  IF min_distance = -1 \/ distance <= min_distance
             THEN MutSelectPresetLast(portfolios, risk_aversion, i + 1, i, distance)
             ELSE MutSelectPresetLast(portfolios, risk_aversion, i + 1,
                                      portfolio, min_distance)

\* the selection loop of PresetPortfolioEngine.optimize_portfolio: the index
\* of the selected preset (0: none), min_distance = -1 standing for inf
RECURSIVE SelectPreset(_, _, _, _, _)
SelectPreset(portfolios, risk_aversion, i, portfolio, min_distance) ==
    IF i > Len(portfolios) THEN portfolio
    ELSE LET distance == Abs(portfolios[i].risk_aversion - risk_aversion)
         IN  IF min_distance = -1 \/ distance < min_distance
             THEN SelectPreset(portfolios, risk_aversion, i + 1, i, distance)
             ELSE SelectPreset(portfolios, risk_aversion, i + 1,
                               portfolio, min_distance)

\* the dict preset_weights: for allocation in portfolio["allocations"],
\* if asset in mean_returns.index: preset_weights[asset] = weight
RECURSIVE PresetWeights(_, _, _)
PresetWeights(allocations, universe, i) ==
    IF i = 0 THEN [a \in {} |-> 0]
    ELSE LET before == PresetWeights(allocations, universe, i - 1)
             asset == allocations[i].asset
         IN  IF asset \in universe
             THEN [a \in (DOMAIN before) \cup {asset} |->
                      IF a = asset THEN allocations[i].weight ELSE before[a]]
             ELSE before

\* a fault: an allocation whose asset is not in the universe raises KeyError
MutPresetKeyError(config, mkt, risk_aversion) ==
    LET sel == SelectPreset(config.portfolios, risk_aversion, 1, 0, -1)
    IN  IF sel = 0
        THEN [kind |-> "error", error |-> "ValueError"]
        ELSE LET portfolio == config.portfolios[sel]
                 weights == PresetWeights(portfolio.allocations,
                                DOMAIN mkt.mean, Len(portfolio.allocations))
                 st == Stats(mkt, weights, DOMAIN weights, Scale)
             IN  IF \E k \in 1..Len(portfolio.allocations) :
                        portfolio.allocations[k].asset \notin DOMAIN mkt.mean
                 THEN [kind |-> "error", error |-> "KeyError"]
                 ELSE [kind         |-> "ok",
                       weights      |-> [num |-> weights, den |-> Scale],
                       return       |-> st.return,
                       volatility   |-> st.volatility,
                       sharpe_ratio |-> st.sharpe_ratio,
                       preset_name  |-> portfolio.name]

\* PresetPortfolioEngine.optimize_portfolio
Preset_optimize_portfolio(config, mkt, risk_aversion) ==
    LET sel == SelectPreset(config.portfolios, risk_aversion, 1, 0, -1)
    IN  IF sel = 0
        THEN [kind |-> "error", error |-> "ValueError"]
        ELSE LET portfolio == config.portfolios[sel]
                 weights == PresetWeights(portfolio.allocations,
                                DOMAIN mkt.mean, Len(portfolio.allocations))
                 st == Stats(mkt, weights, DOMAIN weights, Scale)
             IN  [kind         |-> "ok",
                  weights      |-> [num |-> weights, den |-> Scale],
                  return       |-> st.return,
                  volatility   |-> st.volatility,
                  sharpe_ratio |-> st.sharpe_ratio,
                  preset_name  |-> portfolio.name]

(***************************************************************************)
(* notebook_engline.py                                                     *)
(***************************************************************************)
\* calculate_optimal_portfolio, after minimize returned res: the pair
\* (optimal_weights, portfolio_stats)
calculate_optimal_portfolio(mkt, risk_aversion, res) ==
    LET st == Stats(mkt, res.x, Assets, Scale)
    IN  [kind         |-> "ok",
         weights      |-> [num |-> res.x, den |-> Scale],
         return       |-> st.return,
         volatility   |-> st.volatility,
         sharpe_ratio |-> st.sharpe_ratio,
         utility      |-> Utility(mkt, risk_aversion, res.x)]

\* find_gmvp, after minimize returned res, the iterate res.x in units of
\* 1/res.den: result['fun'] is the objective, the volatility, at res.x
find_gmvp(mkt, res) ==
    [volatility |-> PortfolioVolatility(mkt, res.x, DOMAIN res.x, res.den),
     return     |-> PortfolioReturn(mkt, res.x, DOMAIN res.x, res.den),
     weights    |-> [num |-> res.x, den |-> res.den]]

\* find_market_portfolio, after minimize returned res; rf_rate in
\* hundredths.  sharpe = (return - rf_rate) / volatility, a float division
\* (den 0: inf or nan)
find_market_portfolio(mkt, rf_rate, res) ==
    [volatility |-> PortfolioVolatility(mkt, res.x, DOMAIN res.x, res.den),
     return     |-> PortfolioReturn(mkt, res.x, DOMAIN res.x, res.den),
     weights    |-> [num |-> res.x, den |-> res.den],
     sharpe     |-> [num |-> Dot(mkt.mean, res.x, DOMAIN res.x)
                                 - rf_rate * res.den,
                     den |-> 10 * Sqrt(Quad(mkt.cov, res.x, DOMAIN res.x))]]

\* max(mean_returns)
MaxMean(mkt) == CHOOSE m \in {mkt.mean[i] : i \in DOMAIN mkt.mean} :
                    \A i \in DOMAIN mkt.mean : mkt.mean[i] <= m

\* a fault: the stop value is left out (endpoint = False)
MutLinspaceOpen(a, b, den, points) ==
    [k \in 1..points |->
        [num |-> a * points + (k - 1) * (b - a), den |-> den * points]]

\* np.linspace(start, stop, points), start = a/den and stop = b/den:
\* points values start + k*(stop - start)/(points - 1)
Linspace(a, b, den, points) ==
    [k \in 1..points |->
        IF points = 1 THEN [num |-> a, den |-> den]
        ELSE [num |-> a * (points - 1) + (k - 1) * (b - a),
              den |-> den * (points - 1)]]

\* target_returns_with_short: from the GMVP's return to max(mean_returns)
\* * 1.2, the GMVP's return being gmvp.return.num / gmvp.return.den
target_returns_with_short(mkt, gmvp, points) ==
    Linspace(gmvp.return.num, MaxMean(mkt) * 12 * (gmvp.return.den \div 1000),
             gmvp.return.den, points)

\* target_returns_no_short: from the GMVP's return to max(mean_returns)
target_returns_no_short(mkt, gmvp, points) ==
    Linspace(gmvp.return.num, MaxMean(mkt) * (gmvp.return.den \div 100),
             gmvp.return.den, points)

\* the two loops of efficient_frontier over the target returns: every
\* target appends the minimizer's result['fun'] and the target (minimize
\* does not raise when it does not converge, so the except branch of the
\* second loop is not taken)
FrontierCurve(targets, outcomes) ==
    [returns    |-> targets,
     volatility |-> [k \in 1..Len(targets) |-> outcomes[k].fun]]

\* efficient_frontier, the minimizer having returned gw, mw, gn, mn for the
\* four extremal portfolios and cw, cn for the targets of the two curves
efficient_frontier(mkt, rf_rate, points, gw, mw, gn, mn, cw, cn) ==
    LET gmvp_with_short == find_gmvp(mkt, gw)
        gmvp_no_short == find_gmvp(mkt, gn)
    IN  [kind |-> "ok",
         ef_with_short |->
             FrontierCurve(target_returns_with_short(mkt, gmvp_with_short,
                                                     points), cw),
         ef_no_short   |->
             FrontierCurve(target_returns_no_short(mkt, gmvp_no_short,
                                                   points), cn),
         gmvp_with_short |-> gmvp_with_short,
         gmvp_no_short   |-> gmvp_no_short,
         market_portfolio_with_short |-> find_market_portfolio(mkt, rf_rate, mw),
         market_portfolio_no_short   |-> find_market_portfolio(mkt, rf_rate, mn)]

(***************************************************************************)
(* calculate_metrics of notebook_engline.py and of DataEngine.  A return   *)
(* series is a sequence of daily returns in hundredths; a float is NaN or  *)
(* a record that says how it was computed.                                 *)
(***************************************************************************)
NaN == [kind |-> "nan"]

\* the float 0
Zero == [kind |-> "float", sq |-> [num |-> 0, den |-> 1]]

\* Series.std(): the sample standard deviation (ddof = 1) as its square,
\* NaN for fewer than two values
SeriesStd(s) ==
    IF Len(s) < 2 THEN NaN
    ELSE [kind |-> "float",
          sq |-> [num |-> Len(s) * SumSeq([k \in 1..Len(s) |-> s[k] * s[k]])
                              - SumSeq(s) * SumSeq(s),
                  den |-> Len(s) * (Len(s) - 1)]]

\* x * np.sqrt(trading_days)
TimesSqrt(x, trading_days) ==
    IF x = NaN THEN NaN
    ELSE [kind |-> "float",
          sq |-> [num |-> trading_days * x.sq.num, den |-> x.sq.den]]

\* x != 0 (NaN != 0 is True)
NotZero(x) == x = NaN \/ x.sq.num # 0

\* (1 + fund_returns.mean()) ** trading_days - 1: NaN for an empty series,
\* or else the finite float base ** trading_days - 1
AnnualizedReturn(s, trading_days) ==
    IF Len(s) = 0 THEN NaN
    ELSE [kind |-> "float", power |-> trading_days,
          base |-> [num |-> 100 * Len(s) + SumSeq(s), den |-> 100 * Len(s)]]

\* (annualized_return - risk_free_rate) / deviation, deviation != 0
ExcessOver(annualized_return, risk_free_rate, deviation) ==
    IF annualized_return = NaN \/ deviation = NaN THEN NaN
    ELSE [kind |-> "quotient", return |-> annualized_return,
          risk_free_rate |-> risk_free_rate, by |-> deviation]

\* fund_returns[fund_returns < 0]
Negative(s) == SelectSeq(s, LAMBDA x : x < 0)

\* the body of the loop over the funds, of both calculate_metrics: the
\* metrics of one series (Maximum Drawdown is left out)
FundMetrics(fund_returns, risk_free_rate) ==
    LET trading_days == 252
        annualized_return == AnnualizedReturn(fund_returns, trading_days)
        daily_volatility == SeriesStd(fund_returns)
        annualized_volatility == TimesSqrt(daily_volatility, trading_days)
        sharpe_ratio ==
            IF NotZero(annualized_volatility)
            THEN ExcessOver(annualized_return, risk_free_rate,
                            annualized_volatility)
            ELSE Zero
        downside_returns == Negative(fund_returns)
        downside_deviation ==
            IF Len(downside_returns) > 0
            THEN TimesSqrt(SeriesStd(downside_returns), trading_days)
            ELSE Zero
        sortino_ratio ==
            IF NotZero(downside_deviation)
            THEN ExcessOver(annualized_return, risk_free_rate,
                            downside_deviation)
            ELSE Zero
    IN  [annualized_return     |-> annualized_return,
         annualized_volatility |-> annualized_volatility,
         sharpe_ratio          |-> sharpe_ratio,
         sortino_ratio         |-> sortino_ratio]

\* calculate_metrics(returns_df, risk_free_rate) of notebook_engline.py: one
\* row of metrics per column of returns_df
calculate_metrics(returns_df, risk_free_rate) ==
    [kind |-> "ok",
     metrics |-> [fund \in DOMAIN returns_df |->
                     FundMetrics(returns_df[fund], risk_free_rate)]]

\* DataEngine.calculate_metrics(returns_df, risk_free_rate): the same code
DataEngine_calculate_metrics(self, returns_df, risk_free_rate) ==
    [kind |-> "ok",
     metrics |-> [fund \in DOMAIN returns_df |->
                     FundMetrics(returns_df[fund], risk_free_rate)]]

(***************************************************************************)
(* models/questionnaire.py.  An object is a record of its attributes with  *)
(* its class; a dict is a record of its keys.  An optional value is None   *)
(* or a value, the empty sequence or the sequence of the value.            *)
(***************************************************************************)
None == <<>>

\* weight: float = 1.0, in tenths
DefaultSectionWeight == 10

\* dict.get(key, default)
DictGet(data, key, default) ==
    IF key \in DOMAIN data THEN data[key] ELSE default

\* Question.__init__
Question(id, text, options, section) ==
    [class |-> "Question", id |-> id, text |-> text, options |-> options,
     section |-> section]

\* Question.to_dict
Question_to_dict(self) ==
    [id |-> self.id, text |-> self.text, options |-> self.options,
     section |-> self.section]

\* Question.from_dict
Question_from_dict(data) ==
    Question(data.id, data.text, data.options, DictGet(data, "section", None))

\* Section.__init__
QuestionnaireSection(id, title, description, weight) ==
    [class |-> "Section", id |-> id, title |-> title,
     description |-> description, weight |-> weight]

\* Section.to_dict
Section_to_dict(self) ==
    [id |-> self.id, title |-> self.title, description |-> self.description,
     weight |-> self.weight]

\* a fault: the section is rebuilt with the default weight
MutSectionFromDictDefaultWeight(data) ==
    QuestionnaireSection(data.id, data.title,
                         DictGet(data, "description", None),
                         DefaultSectionWeight)

\* Section.from_dict
Section_from_dict(data) ==
    QuestionnaireSection(data.id, data.title,
                         DictGet(data, "description", None),
                         DictGet(data, "weight", DefaultSectionWeight))

\* Questionnaire.__init__: sections or [], questions or []
Questionnaire(id, title, description, sections, questions) ==
    [class |-> "Questionnaire", id |-> id, title |-> title,
     description |-> description,
     sections  |-> IF sections = None THEN <<>> ELSE sections,
     questions |-> IF questions = None THEN <<>> ELSE questions]

\* Questionnaire.to_dict
Questionnaire_to_dict(self) ==
    [id |-> self.id, title |-> self.title, description |-> self.description,
     sections  |-> [k \in 1..Len(self.sections) |->
                       Section_to_dict(self.sections[k])],
     questions |-> [k \in 1..Len(self.questions) |->
                       Question_to_dict(self.questions[k])]]

\* Questionnaire.from_dict
Questionnaire_from_dict(data) ==
    LET sections == DictGet(data, "sections", <<>>)
        questions == DictGet(data, "questions", <<>>)
    IN  Questionnaire(data.id, data.title, DictGet(data, "description", None),
                      [k \in 1..Len(sections) |-> Section_from_dict(sections[k])],
                      [k \in 1..Len(questions) |-> Question_from_dict(questions[k])])

(***************************************************************************)
(* data_engine.py: the cache of get_fund_data.  self.cache is the content  *)
(* of the cache directory: per date range None (no file), or the pickled   *)
(* prices with the modification time of the file; self.now is the clock.   *)
(* Times are counted in ticks of half a day.                               *)
(***************************************************************************)
\* the ticks of a day: (datetime.now() - file_date).days counts whole days
TicksPerDay == 2

\* age_days = (datetime.now() - file_date).days
AgeDays(self, cache_file) ==
    (self.now - self.cache[cache_file].mtime) \div TicksPerDay

\* a fault: a file as old as cache_expiry_days is not valid any more
MutCacheValidYounger(self, cache_file) ==
    IF self.cache[cache_file] = None
    THEN FALSE
    ELSE AgeDays(self, cache_file) < self.config.cache_expiry_days

\* DataEngine._is_cache_valid(cache_file)
DataEngine_is_cache_valid(self, cache_file) ==
    IF self.cache[cache_file] = None
    THEN FALSE
    ELSE AgeDays(self, cache_file) <= self.config.cache_expiry_days

\* DataEngine._fetch_fund_data(start_date, end_date): the prices the remote
\* source has now for the funds of the configuration
DataEngine_fetch_fund_data(self, range) ==
    [funds |-> self.config.funds, range |-> range, asof |-> self.now]

\* an operation on one of the two cache files of a date range, or the remote
\* source
FileOp(op, range) == [op |-> op, range |-> range]

\* DataEngine.get_fund_data(start_date, end_date, use_cache); disk tells
\* whether the cache files of the range, if present, can be read: "ok",
\* "corrupt_pickle" (pd.read_pickle raises) or "no_metadata" (open of the
\* metadata file raises).  log is the sequence of the operations on the
\* cache files and the remote source.
DataEngine_get_fund_data(self, range, use_cache, disk) ==
    LET valid == use_cache /\ DataEngine_is_cache_valid(self, range)
        checked == IF use_cache THEN <<FileOp("exists", range)>> ELSE <<>>
    IN  IF valid /\ disk = "ok"
        THEN [kind    |-> "ok",
              prices  |-> self.cache[range].prices,
              fetched |-> FALSE,
              self    |-> self,
              log     |-> checked \o <<FileOp("read_pickle", range),
                                       FileOp("read_metadata", range)>>]
        ELSE LET prices_df == DataEngine_fetch_fund_data(self, range)
                 tried ==
                     IF ~valid THEN <<>>
                     ELSE IF disk = "corrupt_pickle"
                     THEN <<FileOp("read_pickle", range)>>
                     ELSE <<FileOp("read_pickle", range),
                            FileOp("read_metadata", range)>>
             IN  [kind    |-> "ok",
                  prices  |-> prices_df,
                  fetched |-> TRUE,
                  self    |-> IF use_cache
                              THEN [self EXCEPT !.cache[range] =
                                       [prices |-> prices_df,
                                        mtime  |-> self.now]]
                              ELSE self,
                  log     |-> checked \o tried \o <<FileOp("fetch", range)>>
                              \o (IF use_cache
                                  THEN <<FileOp("write_pickle", range),
                                         FileOp("write_metadata", range)>>
                                  ELSE <<>>)]

\* DataEngine.update_fund_config(new_fund_config)
DataEngine_update_fund_config(self, new_fund_config) ==
    [self EXCEPT !.config.funds = new_fund_config]

(***************************************************************************)
(* api/routes.py: the handlers of the Flask blueprint.                     *)
(***************************************************************************)
\* rf_rate = 0.03 of get_efficient_frontier, in hundredths
RouteRiskFreeRate == 3

\* min_alloc = 0.01 of recommend_portfolio, in units of weight
RouteMinAllocation == 2

\* POST /recommend with the JSON body data, the data engine having given the
\* statistics mkt and the minimizer having returned res: the handler repeats
\* the mean-variance optimization inline.  Without risk_aversion in the body
\* it answers 400 before any of this.  (fund_metrics, the data engine's
\* figures of the recommended funds, are left out.)
recommend_portfolio(data, mkt, res) ==
    IF "risk_aversion" \notin DOMAIN data
    THEN [kind |-> "error", status |-> 400]
    ELSE LET optimal_weights == res.x
             st == Stats(mkt, optimal_weights, Assets, Scale)
             K == Significant(optimal_weights, RouteMinAllocation)
             significant_weights ==
                 IF K # {} THEN Renormalize(optimal_weights, K)
                 ELSE [num |-> optimal_weights, den |-> Scale]
         IN  [kind         |-> "ok",
              weights      |-> significant_weights,
              return       |-> st.return,
              volatility   |-> st.volatility,
              sharpe_ratio |-> st.sharpe_ratio]

\* GET /efficient-frontier, the minimizer having returned gw, mw, gn, mn for
\* the four extremal portfolios: the handler reads nothing from the request,
\* repeats find_gmvp and find_market_portfolio inline with its own rf_rate
\* and answers with the four portfolios
get_efficient_frontier(mkt, gw, mw, gn, mn) ==
    LET gmvp(res) == find_gmvp(mkt, res)
        market_portfolio(res) ==
            LET m == find_market_portfolio(mkt, RouteRiskFreeRate, res)
            IN  [return |-> m.return, volatility |-> m.volatility,
                 sharpe_ratio |-> m.sharpe, weights |-> m.weights]
    IN  [kind |-> "ok",
         gmvp_with_short |-> gmvp(gw),
         gmvp_no_short   |-> gmvp(gn),
         market_portfolio_with_short |-> market_portfolio(mw),
         market_portfolio_no_short   |-> market_portfolio(mn)]

(***************************************************************************)
(* The configurations the engines are constructed with (json.load of the   *)
(* engine's configuration file).                                           *)
(***************************************************************************)
\* contiguous bands; bands that overlap and leave gaps, out of order
ContiguousProfiles ==
    <<Profile("Conservative", 3, 6, 60), Profile("Moderate", 7, 10, 35),
      Profile("Aggressive", 11, 15, 15)>>

OverlappingProfiles ==
    <<Profile("Moderate", 5, 10, 35), Profile("Conservative", 0, 7, 60),
      Profile("Aggressive", 9, 12, 15)>>

SingleProfile == <<Profile("Moderate", 4, 4, 35)>>

\* a configuration of per-question weights, in tenths, with its bands
QuestionWeights == [q \in 1..SurveyQuestions |-> IF q <= 8 THEN 5 ELSE 15]

WeightedProfiles ==
    <<Profile("Conservative", 0, 30, 60), Profile("Moderate", 31, 50, 35),
      Profile("Aggressive", 51, 80, 15)>>

ProfileTables == {ContiguousProfiles, OverlappingProfiles, SingleProfile}

Section(n, idx, w) == [name |-> n, question_indices |-> idx, weight |-> w]

\* weights 0.5 and 1.5; weights 1.0, 0.3 and 2.0 with a shared question
TwoSections ==
    <<Section("capacity", <<0, 1>>, 5), Section("tolerance", <<2>>, 15)>>

ThreeSections ==
    <<Section("horizon", <<0>>, 10), Section("capacity", <<0, 1>>, 3),
      Section("tolerance", <<1>>, 20)>>

SectionTables == {TwoSections, ThreeSections}

Allocation(a, w) == [asset |-> a, weight |-> w]

Preset(n, ra, allocs) == [name |-> n, risk_aversion |-> ra, allocations |-> allocs]

\* asset 0 is a fund that is not in the caller's universe
PresetsByRisk ==
    <<Preset("Conservative", 60, <<Allocation(1, 140), Allocation(2, 60)>>),
      Preset("Balanced", 35, <<Allocation(0, 80), Allocation(1, 60),
                               Allocation(2, 60)>>),
      Preset("Aggressive", 15, <<Allocation(0, 200)>>)>>

PresetsReversed ==
    <<Preset("Aggressive", 15, <<Allocation(2, 200)>>),
      Preset("Balanced", 35, <<Allocation(2, 100), Allocation(1, 60),
                               Allocation(0, 40)>>),
      Preset("Balanced Twin", 35, <<Allocation(1, 200)>>),
      Preset("Conservative", 60, <<Allocation(1, 150), Allocation(0, 50)>>)>>

PresetTables == {PresetsByRisk, PresetsReversed, <<>>}

Engines ==
    {[type |-> "simple", config |-> [profiles |-> p]] : p \in ProfileTables}
    \cup {[type |-> "weighted", config |-> c] :
              c \in {[profiles |-> ContiguousProfiles],
                     [question_weights |-> QuestionWeights,
                      profiles |-> WeightedProfiles]}}
    \cup {[type |-> "section", config |-> [sections |-> t, profiles |-> p]] :
              t \in SectionTables, p \in {ContiguousProfiles, OverlappingProfiles}}
    \cup {[type |-> "mean_variance", config |-> c] :
              c \in {[name |-> "mean_variance"],
                     [name |-> "mean_variance", min_allocation_threshold |-> 0],
                     [name |-> "mean_variance",
                      min_allocation_threshold |-> Scale \div 2 + 1]}}
    \cup {[type |-> "risk_parity", config |-> c] :
              c \in {[name |-> "risk_parity"],
                     [name |-> "risk_parity", base_volatility |-> 20]}}
    \cup {[type |-> "preset", config |-> [portfolios |-> t]] : t \in PresetTables}
    \cup {[type |-> "notebook", config |-> [source |-> "notebook"]]}
    \cup {[type |-> "api", config |-> [source |-> "routes"]]}

\* questionnaires of at most MaxItems sections and MaxItems questions
SomeSections ==
    {QuestionnaireSection("goals", "Goals", None, 12),
     QuestionnaireSection("capacity", "Risk Capacity", <<"what you can bear">>,
                          DefaultSectionWeight),
     QuestionnaireSection("goals", "Attitude", <<"what you would bear">>, 18)}

SomeOptions ==
    <<[text |-> "Preserve my capital", score |-> 1],
      [text |-> "Maximize long-term returns", score |-> 3]>>

SomeQuestions ==
    {Question("q1", "Objective?", SomeOptions, <<"goals">>),
     Question("q2", "Horizon?", <<>>, None),
     Question("q1", "Income?", SomeOptions, <<"capacity">>)}

Questionnaires ==
    {[type   |-> "questionnaire",
      object |-> Questionnaire("default", "Risk Assessment", d, ss, qs)] :
        d \in {None, <<"a questionnaire">>},
        ss \in UNION {[1..n -> SomeSections] : n \in 0..MaxItems},
        qs \in UNION {[1..n -> SomeQuestions] : n \in 0..MaxItems}}

(***************************************************************************)
(* The factories and the constructors they call.                           *)
(***************************************************************************)
\* the default config_path of each engine class
ConfigPath ==
    [simple        |-> "config/risk_profiles/simple_scoring.json",
     weighted      |-> "config/risk_profiles/weighted_scoring.json",
     section       |-> "config/risk_profiles/section_based.json",
     mean_variance |-> "config/portfolio/mean_variance.json",
     risk_parity   |-> "config/portfolio/risk_parity.json",
     preset        |-> "config/portfolio/preset_portfolios.json"]

\* what the file system may hold at the configuration path of a tag: for a
\* tag that names an engine class, the class's file with one of its
\* configurations; no file otherwise
FileSystems(engine_type) ==
    IF engine_type \in DOMAIN ConfigPath
    THEN [{ConfigPath[engine_type]} ->
             {e.config : e \in {x \in Engines : x.type = engine_type}}]
    ELSE {<<>>}

\* __init__ of the six engine classes: open(config_path), json.load
Construct(type, files) ==
    [kind   |-> "ok",
     engine |-> [type |-> type, config |-> files[ConfigPath[type]]],
     opened |-> <<ConfigPath[type]>>]

SimpleScoreRiskEngine(files) == Construct("simple", files)

WeightedScoreRiskEngine(files) == Construct("weighted", files)

SectionBasedRiskEngine(files) == Construct("section", files)

MeanVarianceEngine(files) == Construct("mean_variance", files)

RiskParityEngine(files) == Construct("risk_parity", files)

PresetPortfolioEngine(files) == Construct("preset", files)

UnknownEngineType == [kind |-> "error", error |-> "ValueError", opened |-> <<>>]

\* a fault: an unknown tag gets the default engine
MutCreateRiskEngineDefault(engine_type, files) ==
    CASE engine_type = "weighted" -> WeightedScoreRiskEngine(files)
      [] engine_type = "section" -> SectionBasedRiskEngine(files)
      [] engine_type = "simple" -> SimpleScoreRiskEngine(files)
      [] OTHER -> [kind   |-> "ok",
                   engine |-> [type |-> "simple",
                               config |-> [profiles |-> SingleProfile]],
                   opened |-> <<ConfigPath.simple>>]

\* create_risk_engine
create_risk_engine(engine_type, files) ==
    CASE engine_type = "simple" -> SimpleScoreRiskEngine(files)
      [] engine_type = "weighted" -> WeightedScoreRiskEngine(files)
      [] engine_type = "section" -> SectionBasedRiskEngine(files)
      [] OTHER -> UnknownEngineType

\* create_portfolio_engine
create_portfolio_engine(engine_type, files) ==
    CASE engine_type = "mean_variance" -> MeanVarianceEngine(files)
      [] engine_type = "risk_parity" -> RiskParityEngine(files)
      [] engine_type = "preset" -> PresetPortfolioEngine(files)
      [] OTHER -> UnknownEngineType

(***************************************************************************)
(* api/routes.py: the handlers that construct a risk engine.  A handler    *)
(* answers with a response (kind "ok" or "error", with its status), or an  *)
(* exception leaves it (kind "raised").                                    *)
(***************************************************************************)
\* risk_engine.assess_risk(responses) on the engine the factory returned
Engine_assess_risk(risk_engine, form, responses) ==
    CASE risk_engine.type = "simple" ->
             SimpleScoreRiskEngine_assess_risk(risk_engine.config, form, responses)
      [] risk_engine.type = "weighted" ->
             WeightedScoreRiskEngine_assess_risk(risk_engine.config, form, responses)
      [] risk_engine.type = "section" ->
             SectionBasedRiskEngine_assess_risk(risk_engine.config, form, responses)

\* POST /assess with the JSON body data (None: no body), the file system
\* holding files.  create_risk_engine is called before the try block.
assess_risk(data, files) ==
    IF data = None \/ "responses" \notin DOMAIN data
    THEN [kind |-> "error", status |-> 400, opened |-> <<>>]
    ELSE LET responses == data.responses
             engine_type == DictGet(data, "engine_type", "simple")
             risk_engine == create_risk_engine(engine_type, files)
         IN  IF risk_engine.kind = "error"
             THEN [kind |-> "raised", error |-> risk_engine.error,
                   opened |-> risk_engine.opened]
             ELSE LET a == Engine_assess_risk(risk_engine.engine,
                                              responses.form, responses.values)
                  IN  IF a.kind = "error"
                      THEN [kind |-> "error", status |-> 500,
                            error |-> a.error, opened |-> risk_engine.opened]
                      ELSE [kind |-> "ok", status |-> 200,
                            profile |-> a.profile,
                            risk_aversion |-> a.risk_aversion,
                            opened |-> risk_engine.opened]

\* a fault: the utility is built with a fixed risk aversion of 1.0
MutCompleteDefaultRiskAversion(a) == 10

\* the risk_aversion of the closure utility(weights): the value that
\* assess_risk returned
UtilityRiskAversion(a) == a.risk_aversion

\* POST /complete with the JSON body data, the file system holding files,
\* the data engine giving the statistics mkt (no asset when it has no
\* prices) and the minimizer returning res.  steps are the calls the handler
\* makes, in their order; minimize is the problem handed to the minimizer.
\* Everything after the check of the body is inside one try block.
\* (fund_metrics and metadata of the response are left out.)
complete_assessment(data, files, mkt, res) ==
    IF data = None \/ "responses" \notin DOMAIN data
    THEN [kind |-> "error", status |-> 400, steps |-> <<>>, opened |-> <<>>]
    ELSE LET responses == data.responses
             risk_engine_type == DictGet(data, "risk_engine_type", "simple")
             risk_engine == create_risk_engine(risk_engine_type, files)
         IN  IF risk_engine.kind = "error"
             THEN [kind |-> "error", status |-> 500,
                   error |-> risk_engine.error,
                   steps |-> <<"create_risk_engine">>,
                   opened |-> risk_engine.opened]
             ELSE LET a == Engine_assess_risk(risk_engine.engine,
                                              responses.form, responses.values)
                  IN  IF a.kind = "error"
                      THEN [kind |-> "error", status |-> 500,
                            error |-> a.error,
                            steps |-> <<"create_risk_engine", "assess_risk">>,
                            opened |-> risk_engine.opened]
                      ELSE IF DOMAIN mkt.mean = {}
                      THEN [kind |-> "error", status |-> 500,
                            error |-> "ZeroDivisionError",
                            steps |-> <<"create_risk_engine", "assess_risk",
                                        "get_fund_data">>,
                            opened |-> risk_engine.opened]
                      ELSE LET optimal_weights == res.x
                               st == Stats(mkt, optimal_weights, Assets, Scale)
                               K == Significant(optimal_weights,
                                                RouteMinAllocation)
                               significant_weights ==
                                   IF K # {}
                                   THEN Renormalize(optimal_weights, K)
                                   ELSE [num |-> optimal_weights, den |-> Scale]
                           IN  [kind |-> "ok", status |-> 200,
                                risk_assessment |->
                                    [profile |-> a.profile,
                                     risk_aversion |-> a.risk_aversion],
                                portfolio |->
                                    [weights      |-> significant_weights,
                                     return       |-> st.return,
                                     volatility   |-> st.volatility,
                                     sharpe_ratio |-> st.sharpe_ratio],
                                minimize |->
                                    [risk_aversion |-> UtilityRiskAversion(a),
                                     allow_short |->
                                         DictGet(data, "allow_short", FALSE)],
                                steps |-> <<"create_risk_engine", "assess_risk",
                                            "get_fund_data", "minimize">>,
                                opened |-> risk_engine.opened]

(***************************************************************************)
(* The arguments of the calls.                                             *)
(***************************************************************************)
\* lists of at most MaxResponses answers
ResponseLists ==
    UNION {[1..n -> 0..MaxAnswer] : n \in 0..MaxResponses}

\* dicts question id -> answer of at most SurveyQuestions questions: the
\* first k answers are a, the others b
ResponseDicts ==
    {[q \in 1..n |-> IF q <= k THEN a ELSE b] :
        n \in {0, 1, SurveyQuestions}, k \in 0..SurveyQuestions,
        a \in 0..MaxAnswer, b \in 0..MaxAnswer}

\* the responses of a caller: a list, or a dict of question id -> answer
Responses ==
    {[form |-> "list", values |-> r] : r \in ResponseLists}
    \cup {[form |-> "dict", values |-> d] : d \in ResponseDicts}

\* risk aversion values (riskAversion: real > 0), in tenths
RiskAversions == {10, 35, 120}

PresetRiskAversions == {0, 15, 25, 35, 47, 48, 60, 200}

\* the statistics of two assets with mean returns [0.08, 0.12] and
\* covariance [[0.04, 0.01], [0.01, 0.09]]
TwoAssetMarket ==
    [mean |-> [i \in 1..2 |-> 4 + 4 * i],
     cov  |-> [i \in 1..2 |-> [j \in 1..2 |->
                  IF i = j THEN (i + 1) * (i + 1) ELSE 1]]]

\* one unit of weight of the two-asset statistics is 1/FineScale
FineScale == 11 * 10

\* the statistics efficient_frontier is called with, each with the
\* iterates the minimizer is given on them: weights in units of 1/den,
\* multiples of step
FrontierProblems ==
    {[market |-> RiskyMarket, den |-> Scale, step |-> Scale \div 5],
     [market |-> TwoAssetMarket, den |-> FineScale, step |-> 1]}

\* the iterates that satisfy the bounds of the regime and the constraint
\* np.sum(x) - 1 = 0, for every problem and regime
Feasible ==
    [p \in FrontierProblems |-> [allow_short \in BOOLEAN |->
        LET K == DOMAIN p.market.mean
            n == CHOOSE i \in K : \A j \in K : j <= i
            lo == IF allow_short THEN 0 - p.den ELSE 0
            G == {k * p.step : k \in (lo \div p.step)..(p.den \div p.step)}
        IN  {x \in {[i \in K |-> IF i = n THEN p.den - SumW(y) ELSE y[i]] :
                       y \in [K \ {n} -> G]} :
                lo <= x[n] /\ x[n] <= p.den}]]

\* the elements of S at which f is least
Least(S, f(_)) ==
    IF S = {} THEN {}
    ELSE LET vals == {f(x) : x \in S}
             m == CHOOSE v \in vals : \A u \in vals : v <= u
         IN  {x \in S : f(x) = m}

\* what minimize leaves in x when it does not converge: nothing is known
\* about it; here a tenth of the capital in each asset
LastIterate(p) == [i \in DOMAIN p.market.mean |-> p.den \div 10]

\* the feasible iterates at which the volatility is least
LeastVolatility ==
    [p \in FrontierProblems |-> [allow_short \in BOOLEAN |->
        Least(Feasible[p][allow_short],
              LAMBDA y : Quad(p.market.cov, y, DOMAIN y))]]

\* minimize of find_gmvp: success means that x is feasible and that the
\* objective, the volatility, is least at x
MinimizeVolatility(p, allow_short) ==
    {[success |-> TRUE, x |-> x, den |-> p.den] :
        x \in LeastVolatility[p][allow_short]}
    \cup {[success |-> FALSE, x |-> LastIterate(p), den |-> p.den]}

\* rf_rate, in hundredths
RiskFreeRates == {3, 5}

\* the feasible iterates at which -(return - rf_rate) / volatility is least
LeastNegativeSharpe ==
    [p \in FrontierProblems |-> [rf_rate \in RiskFreeRates |->
     [allow_short \in BOOLEAN |->
        LET S == Feasible[p][allow_short]
            sharpe(x) ==
                [num |-> Dot(p.market.mean, x, DOMAIN x) - rf_rate * p.den,
                 den |-> 10 * Sqrt(Quad(p.market.cov, x, DOMAIN x))]
            vals == {sharpe(x) : x \in S}
            best == CHOOSE v \in vals : \A u \in vals :
                        u.num * v.den <= v.num * u.den
        IN  {x \in S : sharpe(x).num * best.den
                           = best.num * sharpe(x).den}]]]

\* minimize of find_market_portfolio: success means that x is feasible and
\* that the objective is least at x
MinimizeNegativeSharpe(p, rf_rate, allow_short) ==
    {[success |-> TRUE, x |-> x, den |-> p.den] :
        x \in LeastNegativeSharpe[p][rf_rate][allow_short]}
    \cup {[success |-> FALSE, x |-> LastIterate(p), den |-> p.den]}

\* minimize of min_volatility for one target return: success means that x
\* is feasible, that portfolio_return(x) - target_return = 0 and that the
\* volatility is least at x; fun is result['fun'], the volatility at x, in
\* units of 1/(10*den)
MinimizeVolatilityAt(p, target, allow_short) ==
    LET m == target.den \div (100 * p.den)
        S == {x \in Feasible[p][allow_short] :
                 Dot(p.market.mean, x, DOMAIN x) * m = target.num}
        fun(x) == Sqrt(Quad(p.market.cov, x, DOMAIN x))
    IN  {[success |-> TRUE, x |-> x, den |-> p.den, fun |-> fun(x)] :
            x \in Least(S, LAMBDA y : Quad(p.market.cov, y, DOMAIN y))}
        \cup {[success |-> FALSE, x |-> LastIterate(p), den |-> p.den,
               fun |-> fun(LastIterate(p))]}

\* the results of min_volatility for the first k target returns
RECURSIVE TargetSolves(_, _, _, _)
TargetSolves(p, targets, allow_short, k) ==
    IF k = 0 THEN {<<>>}
    ELSE {Append(s, r) :
             s \in TargetSolves(p, targets, allow_short, k - 1),
             r \in MinimizeVolatilityAt(p, targets[k], allow_short)}

\* engine_type tags: the six registered ones, the empty string and a tag
\* that no factory knows
EngineTypes ==
    {"simple", "weighted", "section", "mean_variance", "risk_parity",
     "preset", "", "black_litterman"}

\* the JSON bodies of POST /recommend
RecommendBodies ==
    {[risk_aversion |-> a] : a \in RiskAversions}
    \cup {[risk_aversion |-> a, allow_short |-> b] :
              a \in {35}, b \in BOOLEAN}
    \cup {[allow_short |-> FALSE]}

\* daily returns, in hundredths, and the return series of at most
\* MaxPeriods periods
ReturnValues == {0 - 2, 0 - 1, 1}

ReturnSeries == UNION {[1..n -> ReturnValues] : n \in 0..MaxPeriods}

\* returns_df: one series per fund, all over the same periods
ReturnFrames ==
    {[fund \in {"AAA"} |-> s] : s \in ReturnSeries}
    \cup {[fund \in {"AAA", "BBB"} |-> IF fund = "AAA" THEN s ELSE t] :
             s, t \in [1..1 -> ReturnValues]}

\* the (start_date, end_date) pairs that get_fund_data is asked for
DateRanges == {"2021-01-01 to 2023-12-31", "2022-01-01 to 2024-12-31"}

\* config["funds"]
FundLists == {<<"AAA">>, <<"AAA", "BBB">>}

\* the ticks of the clock
MaxNow == 4

\* whether the cache files of a range can be read
DiskStates == {"ok", "corrupt_pickle", "no_metadata"}

\* a DataEngine as constructed, with the content of its cache directory
\* (empty) and the clock
DataEngines ==
    {[type |-> "data",
      config |-> [funds |-> <<"AAA">>, cache_expiry_days |-> 1],
      cache |-> [r \in DateRanges |-> None],
      now |-> 0]}

\* the responses of the requests to POST /assess and POST /complete
RouteResponses ==
    {[form |-> "list", values |-> <<2, 2, 3>>],
     [form |-> "list", values |-> <<4>>],
     [form |-> "dict", values |-> <<1, 1>>]}

\* the JSON bodies of POST /assess: none, or an object with or without
\* responses and engine_type
AssessBodies ==
    {None, [engine_type |-> "simple"]}
    \cup {[responses |-> r] : r \in RouteResponses}
    \cup {[responses |-> r, engine_type |-> t] :
             r \in RouteResponses,
             t \in {"simple", "weighted", "section", "black_litterman"}}

\* the JSON bodies of POST /complete
CompleteBodies ==
    {None, [risk_engine_type |-> "simple"]}
    \cup {[responses |-> r] : r \in RouteResponses}
    \cup {[responses |-> r, risk_engine_type |-> t] :
             r \in RouteResponses, t \in {"section", "black_litterman"}}
    \cup {[responses |-> r, risk_engine_type |-> "weighted",
           allow_short |-> TRUE] : r \in RouteResponses}

\* statistics of no asset: the data engine has no prices
EmptyMarket == [mean |-> <<>>, cov |-> <<>>]

\* what the minimizer returns inside POST /complete: all in asset 1, a
\* hundredth less in asset 1 for asset 2, or half the capital in every asset
CompleteIterates ==
    {[i \in Assets |-> IF i = 1 THEN Scale ELSE 0],
     [i \in Assets |-> IF i = 1 THEN Scale - 2 ELSE IF i = 2 THEN 2 ELSE 0],
     [i \in Assets |-> Scale \div 2]}

Idle == [op |-> "idle"]

NoResult == [kind |-> "none"]

(***************************************************************************)
(* The state machine.                                                      *)
(***************************************************************************)
Init ==
    /\ engine \in Engines \cup Questionnaires \cup DataEngines
    /\ call = Idle
    /\ solver = <<>>
    /\ result = NoResult
    /\ opened = <<>>
    /\ seen = NoResult

SimpleAssessRisk ==
    /\ engine.type = "simple"
    /\ call = Idle
    /\ \E r \in Responses :
          /\ call' = [op |-> "assess_risk", form |-> r.form,
                      responses |-> r.values]
          /\ result' = SimpleScoreRiskEngine_assess_risk(
                           engine.config, r.form, r.values)
    /\ UNCHANGED <<engine, solver, opened, seen>>

WeightedAssessRisk ==
    /\ engine.type = "weighted"
    /\ call = Idle
    /\ \E r \in Responses :
          /\ call' = [op |-> "assess_risk", form |-> r.form,
                      responses |-> r.values]
          /\ result' = WeightedScoreRiskEngine_assess_risk(
                           engine.config, r.form, r.values)
    /\ UNCHANGED <<engine, solver, opened, seen>>

SectionAssessRisk ==
    /\ engine.type = "section"
    /\ call = Idle
    /\ \E r \in Responses :
          /\ call' = [op |-> "assess_risk", form |-> r.form,
                      responses |-> r.values]
          /\ result' = SectionBasedRiskEngine_assess_risk(
                           engine.config, r.form, r.values)
    /\ UNCHANGED <<engine, solver, opened, seen>>

MeanVarianceOptimize ==
    /\ engine.type = "mean_variance"
    /\ call = Idle
    /\ \E mkt \in Markets \cup {SkewedMarket}, risk_aversion \in RiskAversions, allow_short \in BOOLEAN :
          \E res \in Minimize(LowerBound(allow_short), Scale) :
             /\ call' = [op |-> "optimize_portfolio", market |-> mkt,
                         risk_aversion |-> risk_aversion,
                         allow_short |-> allow_short]
             /\ solver' = <<res>>
             /\ result' = MeanVariance_optimize_portfolio(
                              engine.config, mkt, risk_aversion, res)
    /\ UNCHANGED <<engine, opened, seen>>

RiskParityOptimize ==
    /\ engine.type = "risk_parity"
    /\ call = Idle
    /\ \E mkt \in Markets, risk_aversion \in RiskAversions :
          \E res \in Minimize(0, Scale) :
             /\ call' = [op |-> "optimize_portfolio", market |-> mkt,
                         risk_aversion |-> risk_aversion,
                         allow_short |-> FALSE]
             /\ solver' = <<res>>
             /\ result' = RiskParity_optimize_portfolio(
                              engine.config, mkt, risk_aversion, res)
    /\ UNCHANGED <<engine, opened, seen>>

\* a fault: the handler reverses the engine's preset list in place
MutPresetOptimizeReverses ==
    /\ engine.type = "preset"
    /\ call = Idle
    /\ \E mkt \in Markets, risk_aversion \in PresetRiskAversions :
          /\ call' = [op |-> "optimize_portfolio", market |-> mkt,
                      risk_aversion |-> risk_aversion,
                      allow_short |-> FALSE]
          /\ result' = Preset_optimize_portfolio(engine.config, mkt, risk_aversion)
    /\ LET P == engine.config.portfolios
       IN  engine' = [engine EXCEPT !.config.portfolios =
                         [k \in 1..Len(P) |-> P[Len(P) + 1 - k]]]
    /\ UNCHANGED <<solver, opened, seen>>

PresetOptimize ==
    /\ engine.type = "preset"
    /\ call = Idle
    /\ \E mkt \in Markets, risk_aversion \in PresetRiskAversions :
          /\ call' = [op |-> "optimize_portfolio", market |-> mkt,
                      risk_aversion |-> risk_aversion,
                      allow_short |-> FALSE]
          /\ result' = Preset_optimize_portfolio(engine.config, mkt, risk_aversion)
    /\ UNCHANGED <<engine, solver, opened, seen>>

CalculateOptimalPortfolio ==
    /\ engine.type = "notebook"
    /\ call = Idle
    /\ \E mkt \in Markets, risk_aversion \in RiskAversions, allow_short \in BOOLEAN :
          \E res \in Minimize(LowerBound(allow_short), Scale) :
             /\ call' = [op |-> "calculate_optimal_portfolio", market |-> mkt,
                         risk_aversion |-> risk_aversion,
                         allow_short |-> allow_short]
             /\ solver' = <<res>>
             /\ result' = calculate_optimal_portfolio(mkt, risk_aversion, res)
    /\ UNCHANGED <<engine, opened, seen>>

EfficientFrontier ==
    /\ engine.type = "notebook"
    /\ call = Idle
    /\ \E p \in FrontierProblems, rf_rate \in RiskFreeRates,
          points \in 0..MaxPoints :
          \E gw \in MinimizeVolatility(p, TRUE),
             mw \in MinimizeNegativeSharpe(p, rf_rate, TRUE),
             gn \in MinimizeVolatility(p, FALSE),
             mn \in MinimizeNegativeSharpe(p, rf_rate, FALSE) :
             \E cw \in TargetSolves(p,
                           target_returns_with_short(p.market,
                               find_gmvp(p.market, gw), points), TRUE, points),
                cn \in TargetSolves(p,
                           target_returns_no_short(p.market,
                               find_gmvp(p.market, gn), points), FALSE, points) :
                /\ call' = [op |-> "efficient_frontier", market |-> p.market,
                            rf_rate |-> rf_rate, points |-> points]
                /\ solver' = <<gw, mw, gn, mn>> \o cw \o cn
                /\ result' = efficient_frontier(p.market, rf_rate, points,
                                                gw, mw, gn, mn, cw, cn)
    /\ UNCHANGED <<engine, opened, seen>>

\* create_risk_engine(engine_type): the caller holds the engine it returns
CreateRiskEngine ==
    /\ call = Idle
    /\ \E engine_type \in EngineTypes :
          \E files \in FileSystems(engine_type) :
             LET r == create_risk_engine(engine_type, files)
             IN  /\ call' = [op |-> "create_risk_engine",
                             engine_type |-> engine_type]
                 /\ opened' = r.opened
                 /\ IF r.kind = "ok"
                    THEN /\ engine' = r.engine
                         /\ result' = [kind |-> "ok", engine |-> r.engine]
                    ELSE /\ engine' = engine
                         /\ result' = [kind |-> "error", error |-> r.error]
    /\ UNCHANGED <<solver, seen>>

\* create_portfolio_engine(engine_type)
CreatePortfolioEngine ==
    /\ call = Idle
    /\ \E engine_type \in EngineTypes :
          \E files \in FileSystems(engine_type) :
             LET r == create_portfolio_engine(engine_type, files)
             IN  /\ call' = [op |-> "create_portfolio_engine",
                             engine_type |-> engine_type]
                 /\ opened' = r.opened
                 /\ IF r.kind = "ok"
                    THEN /\ engine' = r.engine
                         /\ result' = [kind |-> "ok", engine |-> r.engine]
                    ELSE /\ engine' = engine
                         /\ result' = [kind |-> "error", error |-> r.error]
    /\ UNCHANGED <<solver, seen>>

\* questionnaire.to_dict()
QuestionnaireToDict ==
    /\ engine.type = "questionnaire"
    /\ call = Idle
    /\ call' = [op |-> "to_dict"]
    /\ result' = [kind |-> "ok", data |-> Questionnaire_to_dict(engine.object)]
    /\ UNCHANGED <<engine, solver, opened, seen>>

\* Questionnaire.from_dict(data), data being the dict to_dict just returned
QuestionnaireFromDict ==
    /\ engine.type = "questionnaire"
    /\ call.op = "to_dict"
    /\ call' = [op |-> "from_dict", data |-> result.data]
    /\ result' = [kind |-> "ok",
                  questionnaire |-> Questionnaire_from_dict(result.data)]
    /\ UNCHANGED <<engine, solver, opened, seen>>

\* POST /recommend
RecommendPortfolio ==
    /\ engine.type = "api"
    /\ call = Idle
    /\ \E data \in RecommendBodies, mkt \in Markets :
          IF "risk_aversion" \notin DOMAIN data
          THEN /\ call' = [op |-> "recommend_portfolio", data |-> data]
               /\ solver' = <<>>
               /\ result' = recommend_portfolio(data, mkt, <<>>)
          ELSE LET allow_short == DictGet(data, "allow_short", FALSE)
               IN  \E res \in Minimize(LowerBound(allow_short), Scale) :
                      /\ call' = [op |-> "recommend_portfolio", data |-> data,
                                  market |-> mkt]
                      /\ solver' = <<res>>
                      /\ result' = recommend_portfolio(data, mkt, res)
    /\ UNCHANGED <<engine, opened, seen>>

\* GET /efficient-frontier; rf_rate and points are what the caller asks for
GetEfficientFrontier ==
    /\ engine.type = "api"
    /\ call = Idle
    /\ \E p \in {q \in FrontierProblems : q.market = RiskyMarket},
          rf_rate \in RiskFreeRates, points \in 1..MaxPoints :
          \E gw \in MinimizeVolatility(p, TRUE),
             mw \in MinimizeNegativeSharpe(p, RouteRiskFreeRate, TRUE),
             gn \in MinimizeVolatility(p, FALSE),
             mn \in MinimizeNegativeSharpe(p, RouteRiskFreeRate, FALSE) :
             /\ call' = [op |-> "get_efficient_frontier", market |-> p.market,
                         rf_rate |-> rf_rate, points |-> points]
             /\ solver' = <<gw, mw, gn, mn>>
             /\ result' = get_efficient_frontier(p.market, gw, mw, gn, mn)
    /\ UNCHANGED <<engine, opened, seen>>

\* calculate_metrics(returns_df, risk_free_rate) of notebook_engline.py
CalculateMetrics ==
    /\ engine.type = "notebook"
    /\ call = Idle
    /\ \E returns_df \in ReturnFrames, risk_free_rate \in RiskFreeRates :
          /\ call' = [op |-> "calculate_metrics", returns_df |-> returns_df,
                      risk_free_rate |-> risk_free_rate]
          /\ result' = calculate_metrics(returns_df, risk_free_rate)
    /\ UNCHANGED <<engine, solver, opened, seen>>

\* DataEngine.calculate_metrics(returns_df, risk_free_rate)
DataCalculateMetrics ==
    /\ engine.type = "data"
    /\ call = Idle
    /\ \E returns_df \in ReturnFrames, risk_free_rate \in RiskFreeRates :
          /\ call' = [op |-> "calculate_metrics", returns_df |-> returns_df,
                      risk_free_rate |-> risk_free_rate]
          /\ result' = DataEngine_calculate_metrics(engine, returns_df,
                                                    risk_free_rate)
    /\ UNCHANGED <<engine, solver, opened, seen>>

\* DataEngine.get_fund_data
GetFundData ==
    /\ engine.type = "data"
    /\ call = Idle
    /\ \E range \in DateRanges, use_cache \in BOOLEAN :
          \E disk \in IF engine.cache[range] = None THEN {"ok"} ELSE DiskStates :
             LET r == DataEngine_get_fund_data(engine, range, use_cache, disk)
             IN  /\ call' = [op |-> "get_fund_data", range |-> range,
                             use_cache |-> use_cache, disk |-> disk]
                 /\ engine' = r.self
                 /\ opened' = r.log
                 /\ result' = [kind |-> "ok", prices |-> r.prices,
                               fetched |-> r.fetched]
    /\ UNCHANGED <<solver, seen>>

\* DataEngine.update_fund_config: the configuration file is written
UpdateFundConfig ==
    /\ engine.type = "data"
    /\ call = Idle
    /\ \E new_fund_config \in FundLists :
          /\ call' = [op |-> "update_fund_config",
                      new_fund_config |-> new_fund_config]
          /\ engine' = DataEngine_update_fund_config(engine, new_fund_config)
    /\ opened' = <<"config/funds/fund_config.json">>
    /\ result' = [kind |-> "ok"]
    /\ UNCHANGED <<solver, seen>>

\* half a day passes between two calls
Tick ==
    /\ engine.type = "data"
    /\ call = Idle
    /\ engine.now < MaxNow
    /\ engine' = [engine EXCEPT !.now = @ + 1]
    /\ UNCHANGED <<call, solver, result, opened, seen>>

\* the cache files of a date range are removed between two calls
ClearCache ==
    /\ engine.type = "data"
    /\ call = Idle
    /\ \E range \in DateRanges :
          /\ engine.cache[range] # None
          /\ engine' = [engine EXCEPT !.cache[range] = None]
    /\ UNCHANGED <<call, solver, result, opened, seen>>

\* POST /assess
AssessRisk ==
    /\ engine.type = "api"
    /\ call = Idle
    /\ \E data \in AssessBodies :
          \E files \in FileSystems(DictGet(data, "engine_type", "simple")) :
             LET r == assess_risk(data, files)
             IN  /\ call' = [op |-> "post_assess", data |-> data,
                             files |-> files]
                 /\ opened' = r.opened
                 /\ result' = [k \in DOMAIN r \ {"opened"} |-> r[k]]
    /\ UNCHANGED <<engine, solver, seen>>

\* POST /complete
CompleteAssessment ==
    /\ engine.type = "api"
    /\ call = Idle
    /\ \E data \in CompleteBodies, mkt \in {RiskyMarket, EmptyMarket} :
          \E files \in FileSystems(DictGet(data, "risk_engine_type", "simple")),
             res \in {m \in Minimize(LowerBound(DictGet(data, "allow_short",
                                                        FALSE)), Scale) :
                         m.x \in CompleteIterates} :
             LET r == complete_assessment(data, files, mkt, res)
             IN  /\ call' = [op |-> "post_complete", data |-> data,
                             files |-> files, market |-> mkt]
                 /\ opened' = r.opened
                 /\ solver' = IF "minimize" \in DOMAIN r THEN <<res>> ELSE <<>>
                 /\ result' = [k \in DOMAIN r \ {"opened"} |-> r[k]]
    /\ UNCHANGED <<engine, seen>>

\* the caller has taken the result; the engine is ready for the next call
Return ==
    /\ call # Idle
    /\ call' = Idle
    /\ solver' = <<>>
    /\ result' = NoResult
    /\ opened' = <<>>
    /\ UNCHANGED <<engine, seen>>

Next ==
    \/ CreateRiskEngine
    \/ CreatePortfolioEngine
    \/ SimpleAssessRisk
    \/ WeightedAssessRisk
    \/ SectionAssessRisk
    \/ MeanVarianceOptimize
    \/ RiskParityOptimize
    \/ PresetOptimize
    \/ CalculateOptimalPortfolio
    \/ EfficientFrontier
    \/ RecommendPortfolio
    \/ GetEfficientFrontier
    \/ QuestionnaireToDict
    \/ QuestionnaireFromDict
    \/ CalculateMetrics
    \/ DataCalculateMetrics
    \/ GetFundData
    \/ UpdateFundConfig
    \/ Tick
    \/ ClearCache
    \/ AssessRisk
    \/ CompleteAssessment
    \/ Return

Spec == Init /\ [][Next]_vars

(***************************************************************************)
(* Sequences of assess_risk and optimize_portfolio calls on one engine, of *)
(* which the caller keeps one completed call, with what the minimizer      *)
(* answered in it and what the call returned, to compare later calls with. *)
(***************************************************************************)
\* the calls a caller keeps: every answer 3 (three answers in a list, the
\* whole survey in a dict), or risk aversion 3.5 on the risky universe,
\* long only, the minimizer having converged on 99% asset 1 and 1% asset 2
KeptCall ==
    \/ /\ call.op = "assess_risk"
       /\ Len(call.responses) = IF call.form = "list" THEN 3 ELSE SurveyQuestions
       /\ \A k \in 1..Len(call.responses) : call.responses[k] = 3
    \/ /\ call.op = "optimize_portfolio"
       /\ call.market = RiskyMarket
       /\ call.risk_aversion = 35
       /\ ~call.allow_short
       /\ IF solver = <<>> THEN TRUE
          ELSE /\ solver[1].success
               /\ solver[1].x = [i \in Assets |-> IF i = 1 THEN Scale - 2
                                                  ELSE IF i = 2 THEN 2 ELSE 0]

Remember ==
    /\ call.op \in {"assess_risk", "optimize_portfolio"}
    /\ seen = NoResult
    /\ KeptCall
    /\ seen' = [call |-> call, solver |-> solver, result |-> result]
    /\ call' = Idle
    /\ solver' = <<>>
    /\ result' = NoResult
    /\ UNCHANGED <<engine, opened>>

InitHistory ==
    /\ Init
    /\ engine.type \in {"simple", "weighted", "section",
                        "mean_variance", "risk_parity", "preset"}

NextHistory ==
    \/ SimpleAssessRisk
    \/ WeightedAssessRisk
    \/ SectionAssessRisk
    \/ MeanVarianceOptimize
    \/ RiskParityOptimize
    \/ PresetOptimize
    \/ Return
    \/ Remember

SpecHistory == InitHistory /\ [][NextHistory]_vars

(***************************************************************************)
(* Properties.                                                             *)
(***************************************************************************)
IsCall(type, op) == engine.type = type /\ call.op = op

\* the sum of the numerators of a weight vector
Total(w) == SumOver(w.num, DOMAIN w.num)

\* C1: whenever the minimizer reports non-convergence inside
\* MeanVarianceEngine.optimize_portfolio or RiskParityEngine.optimize_portfolio,
\* the call ends in an OptimizationFailure and returns no portfolio result.
C1_NonConvergenceSurfaced ==
    (/\ engine.type \in {"mean_variance", "risk_parity"}
     /\ call.op = "optimize_portfolio"
     /\ ~solver[1].success)
    => (result.kind = "error" /\ result.error = "OptimizationFailure")

\* C2: WeightedScoreRiskEngine.assess_risk returns the band of
\* finalScore = 96 - sum(responses): >= 76 Aggressive 1.5, 61..75
\* Growth-Oriented 2.5, 46..60 Moderate 3.5, 31..45 Conservative 6.0,
\* <= 30 Very Conservative 12.0; 16 responses summing to 48 give Moderate 3.5.
C2_WeightedBands ==
    (IsCall("weighted", "assess_risk") /\ call.form = "dict") =>
        LET finalScore == 96 - SumValues(call.responses)
            Is(name, ra) == result.profile = name /\ result.risk_aversion = ra
        IN  /\ result.kind = "ok"
            /\ finalScore >= 76 => Is("Aggressive", 15)
            /\ (61 <= finalScore /\ finalScore <= 75) => Is("Growth-Oriented", 25)
            /\ (46 <= finalScore /\ finalScore <= 60) => Is("Moderate", 35)
            /\ (31 <= finalScore /\ finalScore <= 45) => Is("Conservative", 60)
            /\ finalScore <= 30 => Is("Very Conservative", 120)
            /\ (Len(call.responses) = 16 /\ SumValues(call.responses) = 48)
                   => Is("Moderate", 35)

C2_Witness ==
    /\ IsCall("weighted", "assess_risk")
    /\ call.form = "dict"
    /\ Len(call.responses) = 16
    /\ SumValues(call.responses) = 48
    /\ result.kind = "ok"
    /\ result.profile = "Moderate"

\* C3: SimpleScoreRiskEngine.assess_risk returns the first profile, in
\* configuration order, whose inclusive [min_score, max_score] contains
\* sum(responses), and the first configured profile, without an error, when
\* no interval contains the score.
C3_SimpleFirstMatch ==
    (IsCall("simple", "assess_risk") /\ call.form = "list") =>
        LET P == engine.config.profiles
            score == SumSeq(call.responses)
            M == {i \in 1..Len(P) :
                     P[i].min_score <= score /\ score <= P[i].max_score}
            Is(i) == /\ result.profile = P[i].name
                     /\ result.risk_aversion = P[i].risk_aversion
        IN  /\ result.kind = "ok"
            /\ IF M = {} THEN Is(1)
               ELSE \E i \in M : (\A j \in M : i <= j) /\ Is(i)

\* a score inside two overlapping bands, answered with the first of them
C3_Witness ==
    /\ IsCall("simple", "assess_risk")
    /\ call.form = "list"
    /\ result.kind = "ok"
    /\ LET P == engine.config.profiles
           score == SumSeq(call.responses)
       IN  \E i, j \in 1..Len(P) :
              /\ i < j
              /\ P[i].min_score <= score /\ score <= P[i].max_score
              /\ P[j].min_score <= score /\ score <= P[j].max_score
              /\ result.profile = P[i].name

\* no band holds the score: the first configured profile is the answer
C3_WitnessFallback ==
    /\ IsCall("simple", "assess_risk")
    /\ call.form = "list"
    /\ result.kind = "ok"
    /\ LET P == engine.config.profiles
           score == SumSeq(call.responses)
       IN  /\ \A i \in 1..Len(P) :
                 score < P[i].min_score \/ score > P[i].max_score
           /\ result.profile = P[1].name

\* C4: SectionBasedRiskEngine.assess_risk bands finalScore = the sum over the
\* configured sections of (section weight x sum of the responses at the
\* section's question_indices) with the first-match inclusive scan and the
\* first-profile fallback.  (Scores and weights in tenths.)
C4_SectionScore ==
    (IsCall("section", "assess_risk") /\ result.kind = "ok") =>
        LET P == engine.config.profiles
            S == engine.config.sections
            R == call.responses
            sectionSum(i) ==
                SumSeq([k \in 1..Len(S[i].question_indices) |->
                           R[S[i].question_indices[k] + 1]])
            finalScore == SumSeq([i \in 1..Len(S) |-> S[i].weight * sectionSum(i)])
            M == {i \in 1..Len(P) :
                     /\ 10 * P[i].min_score <= finalScore
                     /\ finalScore <= 10 * P[i].max_score}
            Is(i) == /\ result.profile = P[i].name
                     /\ result.risk_aversion = P[i].risk_aversion
        IN  IF M = {} THEN Is(1)
            ELSE \E i \in M : (\A j \in M : i <= j) /\ Is(i)

\* every configured question answered, the weighted score inside a band that
\* is not the first one
C4_Witness ==
    /\ IsCall("section", "assess_risk")
    /\ call.form = "list"
    /\ result.kind = "ok"
    /\ Len(call.responses) = 3
    /\ \A k \in 1..3 : call.responses[k] > 0
    /\ result.profile # engine.config.profiles[1].name

\* C5: in MeanVarianceEngine.optimize_portfolio with min_allocation_threshold
\* 0.01, every asset whose solved weight is below the threshold is absent
\* from the returned weights, the returned weights are the remaining weights
\* divided by their sum (so they sum to 1), and when no asset reaches the
\* threshold the unfiltered weights are returned.
C5_ThresholdFilter ==
    (/\ IsCall("mean_variance", "optimize_portfolio")
     /\ "min_allocation_threshold" \notin DOMAIN engine.config
     /\ result.kind = "ok") =>
        LET x == solver[1].x
            kept == {i \in Assets : ~(x[i] < 2)}
            keptSum == SumOver(x, kept)
            w == result.weights
        IN  IF kept # {}
            THEN /\ \A i \in Assets : x[i] < 2 => i \notin DOMAIN w.num
                 /\ DOMAIN w.num = kept
                 /\ \A i \in kept : w.num[i] * keptSum = x[i] * w.den
                 /\ Total(w) = w.den
            ELSE /\ DOMAIN w.num = Assets
                 /\ \A i \in Assets : w.num[i] * Scale = x[i] * w.den

\* a converged solve with a weight below 1% that is dropped, the others kept
C5_Witness ==
    /\ IsCall("mean_variance", "optimize_portfolio")
    /\ "min_allocation_threshold" \notin DOMAIN engine.config
    /\ result.kind = "ok"
    /\ solver[1].success
    /\ \E i \in Assets : solver[1].x[i] = 1 /\ i \notin DOMAIN result.weights.num
    /\ result.weights.den < Scale
    /\ Total(result.weights) = result.weights.den

\* the allocations returned by the optimizations that carry the weight-sum
\* equality constraint and per-asset bounds, each with its regime
ConstrainedAllocations ==
    IF result.kind # "ok" THEN {}
    ELSE IF IsCall("mean_variance", "optimize_portfolio")
              \/ IsCall("notebook", "calculate_optimal_portfolio")
    THEN {[weights |-> result.weights, allow_short |-> call.allow_short]}
    ELSE IF IsCall("notebook", "efficient_frontier")
    THEN {[weights |-> result.gmvp_with_short.weights, allow_short |-> TRUE],
          [weights |-> result.market_portfolio_with_short.weights,
           allow_short |-> TRUE],
          [weights |-> result.gmvp_no_short.weights, allow_short |-> FALSE],
          [weights |-> result.market_portfolio_no_short.weights,
           allow_short |-> FALSE]}
    ELSE {}

\* C6: the weights of every result returned by MeanVarianceEngine
\* .optimize_portfolio, calculate_optimal_portfolio and of the GMVP and
\* tangency portfolios of efficient_frontier sum to 1 within 1e-6.
C6_WeightsSumToOne ==
    \A a \in ConstrainedAllocations :
        Abs(Total(a.weights) - a.weights.den) * 1000000 <= a.weights.den

\* C7: every weight of every returned allocation lies in [0,1] when the
\* result is long-only and in [-1,1] when shorting is allowed, for
\* MeanVarianceEngine after filtering and renormalization.
C7_WeightsInBounds ==
    \A a \in ConstrainedAllocations :
        \A i \in DOMAIN a.weights.num :
            /\ a.weights.num[i] <= a.weights.den
            /\ a.allow_short => 0 - a.weights.den <= a.weights.num[i]
            /\ ~a.allow_short => 0 <= a.weights.num[i]

\* C8 as stated: for every RiskParityEngine.optimize_portfolio result, the
\* sum of the scaled weights plus cash_weight equals 1 (here already for
\* the results of a converged solve).
C8_ScaledPlusCashIsOne ==
    (/\ IsCall("risk_parity", "optimize_portfolio")
     /\ result.kind = "ok"
     /\ solver[1].success) =>
        Total(result.weights) + result.cash_weight.num = result.weights.den

\* C8, amended: the sum of the scaled weights plus cash_weight equals 1
\* when the scaled weights sum to at most 1; when they sum to more than 1
\* cash_weight is 0 and the total is the sum of the scaled weights.
C8_ScaledPlusCash ==
    (IsCall("risk_parity", "optimize_portfolio") /\ result.kind = "ok") =>
        LET w == result.weights
            cash == result.cash_weight
        IN  /\ cash.den = w.den
            /\ Total(w) <= w.den => Total(w) + cash.num = w.den
            /\ Total(w) > w.den => cash.num = 0

\* a converged solve scaled up: the scaled weights sum to more than 1
C8_Witness ==
    /\ IsCall("risk_parity", "optimize_portfolio")
    /\ result.kind = "ok"
    /\ solver[1].success
    /\ Total(result.weights) > result.weights.den
    /\ result.cash_weight.num = 0

\* C9: PresetPortfolioEngine.optimize_portfolio selects the preset whose
\* risk_aversion is closest to the requested one, and among presets at the
\* same minimal distance the first in configuration order.
C9_ClosestPresetFirst ==
    (IsCall("preset", "optimize_portfolio") /\ result.kind = "ok") =>
        LET P == engine.config.portfolios
            q == call.risk_aversion
            d(i) == IF P[i].risk_aversion >= q THEN P[i].risk_aversion - q
                    ELSE q - P[i].risk_aversion
        IN  \E i \in 1..Len(P) :
               /\ result.preset_name = P[i].name
               /\ \A j \in 1..Len(P) : d(i) <= d(j)
               /\ \A j \in 1..(i - 1) : d(i) < d(j)

\* two presets at the same minimal distance; the one configured first is
\* selected
C9_Witness ==
    /\ IsCall("preset", "optimize_portfolio")
    /\ result.kind = "ok"
    /\ LET P == engine.config.portfolios
           q == call.risk_aversion
           d(i) == IF P[i].risk_aversion >= q THEN P[i].risk_aversion - q
                   ELSE q - P[i].risk_aversion
       IN  \E i, j \in 1..Len(P) :
              /\ i < j
              /\ d(i) = d(j)
              /\ \A k \in 1..Len(P) : d(i) <= d(k)
              /\ result.preset_name = P[i].name

\* C10: PresetPortfolioEngine.optimize_portfolio returns exactly the selected
\* preset's (asset, weight) pairs whose asset is in the caller's universe,
\* the configured weights unchanged; preset assets absent from the universe
\* raise no error; with no preset configured the call fails with an error.
C10_PresetWeights ==
    IsCall("preset", "optimize_portfolio") =>
        LET P == engine.config.portfolios
        IN  /\ Len(P) = 0 => (result.kind = "error" /\ result.error = "ValueError")
            /\ Len(P) > 0 => result.kind = "ok"
            /\ result.kind = "ok" =>
                  \E i \in 1..Len(P) :
                     LET A == P[i].allocations
                         w == result.weights
                     IN  /\ result.preset_name = P[i].name
                         /\ w.den = Scale
                         /\ DOMAIN w.num =
                               {A[k].asset : k \in 1..Len(A)} \cap Assets
                         /\ \A k \in 1..Len(A) :
                               A[k].asset \in Assets =>
                                   w.num[A[k].asset] = A[k].weight

\* a preset with a fund outside the universe: the fund is dropped and the
\* other weights, as configured, sum to less than 1
C10_Witness ==
    /\ IsCall("preset", "optimize_portfolio")
    /\ result.kind = "ok"
    /\ result.preset_name = "Balanced"
    /\ DOMAIN result.weights.num # {}
    /\ 0 \notin DOMAIN result.weights.num
    /\ Total(result.weights) < result.weights.den

\* C11: in efficient_frontier, in both regimes, a target return for which
\* the minimizer does not converge contributes no point to the regime's
\* curve: each curve holds exactly the targets whose solve converged, and the
\* call still returns its bundle.
C11_FailedTargetsDropped ==
    (IsCall("notebook", "efficient_frontier") /\ call.points > 0) =>
        LET points == call.points
            converged(offset) ==
                Cardinality({k \in 1..points : solver[offset + k].success})
        IN  /\ result.kind = "ok"
            /\ Len(result.ef_with_short.returns) = converged(4)
            /\ Len(result.ef_with_short.volatility) = converged(4)
            /\ Len(result.ef_no_short.returns) = converged(4 + points)
            /\ Len(result.ef_no_short.volatility) = converged(4 + points)

\* C12: every successful efficientFrontier call, efficient_frontier of the
\* notebook engine and GET /efficient-frontier alike, computes with the
\* caller's risk-free rate and number of points and returns, for the
\* with-short and the no-short regime, the GMVP, the tangency portfolio and
\* the sampled frontier curve.
C12_FrontierBundle ==
    (call.op \in {"efficient_frontier", "get_efficient_frontier"}
     /\ result.kind = "ok") =>
        LET excess(res) ==
                Dot(call.market.mean, res.x, DOMAIN res.x)
                    - call.rf_rate * res.den
            sharpe(m) == IF "sharpe" \in DOMAIN m THEN m.sharpe
                         ELSE m.sharpe_ratio
        IN  /\ {"gmvp_with_short", "gmvp_no_short",
                "market_portfolio_with_short", "market_portfolio_no_short",
                "ef_with_short", "ef_no_short"} \subseteq DOMAIN result
            /\ Len(result.ef_with_short.returns) = call.points
            /\ Len(result.ef_no_short.returns) = call.points
            /\ sharpe(result.market_portfolio_with_short).num = excess(solver[2])
            /\ sharpe(result.market_portfolio_no_short).num = excess(solver[4])

\* the same statement of the notebook engine's efficient_frontier alone
C12_NotebookBundle ==
    (IsCall("notebook", "efficient_frontier") /\ result.kind = "ok") =>
        LET excess(res) ==
                Dot(call.market.mean, res.x, DOMAIN res.x)
                    - call.rf_rate * res.den
        IN  /\ {"gmvp_with_short", "gmvp_no_short",
                "market_portfolio_with_short", "market_portfolio_no_short",
                "ef_with_short", "ef_no_short"} \subseteq DOMAIN result
            /\ Len(result.ef_with_short.returns) = call.points
            /\ Len(result.ef_no_short.returns) = call.points
            /\ result.market_portfolio_with_short.sharpe.num = excess(solver[2])
            /\ result.market_portfolio_no_short.sharpe.num = excess(solver[4])

\* C13: create_risk_engine and create_portfolio_engine return an engine of
\* the variant registered for the tag ('simple', 'weighted', 'section';
\* 'mean_variance', 'risk_parity', 'preset'), constructed from that variant's
\* configuration file; for every other tag they fail with a configuration
\* error (ValueError) and no engine is constructed and no file is opened.
C13_FactoryResolvesTag ==
    (call.op \in {"create_risk_engine", "create_portfolio_engine"}) =>
        LET registered ==
                IF call.op = "create_risk_engine"
                THEN {"simple", "weighted", "section"}
                ELSE {"mean_variance", "risk_parity", "preset"}
        IN  IF call.engine_type \in registered
            THEN /\ result.kind = "ok"
                 /\ result.engine.type = call.engine_type
                 /\ engine = result.engine
                 /\ opened = <<ConfigPath[call.engine_type]>>
            ELSE /\ result.kind = "error"
                 /\ result.error = "ValueError"
                 /\ "engine" \notin DOMAIN result
                 /\ opened = <<>>

\* an unknown tag never replaces the engine the caller holds
C13_UnknownTagKeepsEngine ==
    [][(call'.op \in {"create_risk_engine", "create_portfolio_engine"}
        /\ result'.kind = "error") => engine' = engine]_vars

\* a portfolio tag given to the risk factory is refused
C13_Witness ==
    /\ call.op = "create_risk_engine"
    /\ call.engine_type = "preset"
    /\ result.kind = "error"
    /\ opened = <<>>

C13_WitnessCreated ==
    /\ call.op = "create_portfolio_engine"
    /\ call.engine_type = "preset"
    /\ result.kind = "ok"
    /\ result.engine.type = "preset"
    /\ Len(opened) = 1

\* the largest question index of the engine's configured sections
MaxQuestionIndex ==
    LET S == engine.config.sections
        I == UNION {{S[i].question_indices[k] :
                        k \in 1..Len(S[i].question_indices)} : i \in 1..Len(S)}
    IN  CHOOSE m \in I : \A j \in I : j <= m

\* C14: an assess call whose response vector is shorter than the configured
\* question index set (some configured index is >= len(responses)) fails
\* with an error (Python's IndexError) and returns no (profileName,
\* riskAversion) pair.
C14_ShortResponsesFail ==
    (/\ IsCall("section", "assess_risk")
     /\ call.form = "list"
     /\ MaxQuestionIndex >= Len(call.responses)) =>
        /\ result.kind = "error"
        /\ result.error = "IndexError"
        /\ "profile" \notin DOMAIN result
        /\ "risk_aversion" \notin DOMAIN result

\* one answer short: the first section's questions are all answered
C14_Witness ==
    /\ IsCall("section", "assess_risk")
    /\ call.form = "list"
    /\ engine.config.sections = TwoSections
    /\ Len(call.responses) = MaxQuestionIndex
    /\ result.kind = "error"

\* C15: the WeightedScore engine supports two configurations: with
\* per-question weights the score is the dot product of the weights and the
\* responses, banded by the configured profile intervals; without them it is
\* the fixed 96 - sum band policy.  The loaded configuration decides.
C15_WeightedSubPolicies ==
    (IsCall("weighted", "assess_risk") /\ call.form = "dict"
     /\ Len(call.responses) = SurveyQuestions) =>
        IF "question_weights" \in DOMAIN engine.config
        THEN LET W == engine.config.question_weights
                 score == SumSeq([q \in 1..SurveyQuestions |->
                                     W[q] * call.responses[q]])
             IN  result = ScanProfiles(engine.config.profiles, score, 10)
        ELSE result = WeightedScore_assess_risk(call.responses)

\* the responses the engine's configuration asks for: a section engine needs
\* an answer to every configured question
WellFormedResponses ==
    engine.type = "section" => MaxQuestionIndex < Len(call.responses)

\* C16: for every engine type, assessRisk accepts well-formed responses
\* given as an ordered sequence of integers or as a mapping question id ->
\* integer and returns a (profileName, riskAversion) pair.
C16_BothFormsAccepted ==
    (/\ call.op = "assess_risk"
     /\ engine.type \in {"simple", "weighted", "section"}
     /\ WellFormedResponses) =>
        /\ result.kind = "ok"
        /\ {"profile", "risk_aversion"} \subseteq DOMAIN result

Symmetric(cov) == \A i, j \in DOMAIN cov : cov[i][j] = cov[j][i]

\* C17: an optimization or frontier request with a covariance matrix that is
\* not symmetric (or not square, or of another dimension than the mean
\* vector) is rejected with InvalidInput before the minimizer is invoked and
\* before any statistic is computed; no partial result is produced.
C17_MalformedStatisticsRejected ==
    (/\ call.op \in {"optimize_portfolio", "calculate_optimal_portfolio",
                     "efficient_frontier"}
     /\ ~Symmetric(call.market.cov)) =>
        /\ result.kind = "error"
        /\ result.error = "InvalidInput"
        /\ solver = <<>>

\* two calls with equal arguments, in which the minimizer gave equal
\* answers, on the same engine return equal results, whatever calls ran
\* between them
C18_EqualCallsEqualResults ==
    (seen # NoResult /\ call = seen.call /\ solver = seen.solver)
        => result = seen.result

\* no assess_risk and no optimize_portfolio call changes the engine's loaded
\* configuration or opens a file
C18_ConfigurationUnchanged ==
    [][call'.op \in {"assess_risk", "optimize_portfolio"}
          => (engine' = engine /\ opened' = opened)]_vars

C18_WitnessOptimizer ==
    /\ seen # NoResult
    /\ engine.type = "mean_variance"
    /\ call = seen.call
    /\ solver = seen.solver
    /\ result.kind = "ok"

\* C19: for every Questionnaire q, Questionnaire.from_dict(q.to_dict()) has
\* the same id, title and description, the same questions in the same order
\* (id, text, options, section) and the same sections in the same order (id,
\* title, description, weight) as q.
C19_RoundTrip ==
    (engine.type = "questionnaire" /\ call.op = "from_dict") =>
        LET q == engine.object
            r == result.questionnaire
        IN  /\ result.kind = "ok"
            /\ r.id = q.id /\ r.title = q.title /\ r.description = q.description
            /\ Len(r.questions) = Len(q.questions)
            /\ \A k \in 1..Len(q.questions) :
                  /\ r.questions[k].id = q.questions[k].id
                  /\ r.questions[k].text = q.questions[k].text
                  /\ r.questions[k].options = q.questions[k].options
                  /\ r.questions[k].section = q.questions[k].section
            /\ Len(r.sections) = Len(q.sections)
            /\ \A k \in 1..Len(q.sections) :
                  /\ r.sections[k].id = q.sections[k].id
                  /\ r.sections[k].title = q.sections[k].title
                  /\ r.sections[k].description = q.sections[k].description
                  /\ r.sections[k].weight = q.sections[k].weight

\* two sections of different weights and two questions, one of them without
\* a section, came back
C19_Witness ==
    /\ engine.type = "questionnaire"
    /\ call.op = "from_dict"
    /\ result.kind = "ok"
    /\ Len(result.questionnaire.sections) = 2
    /\ result.questionnaire.sections[1].weight = 18
    /\ result.questionnaire.sections[2].weight = 12
    /\ Len(result.questionnaire.questions) = 2
    /\ result.questionnaire.questions[1].section = None
    /\ result.questionnaire.questions[2].section # None
    /\ result.questionnaire.description # None

\* C20: the weights returned by POST /recommend are the threshold-filtered,
\* renormalized weights, and the return, volatility and Sharpe ratio
\* reported with them are those of the returned weights (on the reduced
\* covariance submatrix), as MeanVarianceEngine.optimize_portfolio computes
\* them.  (Stated for converged solves.)
C20_RecommendRecomputesStatistics ==
    (call.op = "recommend_portfolio" /\ result.kind = "ok"
     /\ solver[1].success) =>
        LET x == solver[1].x
            K == {i \in Assets : x[i] >= 2}
            w == result.weights
            st == Stats(call.market, w.num, DOMAIN w.num, w.den)
            engine_result ==
                MeanVariance_optimize_portfolio(
                    [name |-> "mean_variance"], call.market,
                    call.data.risk_aversion, solver[1])
        IN  /\ DOMAIN w.num = K
            /\ \A i \in K : w.num[i] = x[i]
            /\ w.den = SumOver(x, K)
            /\ result.return = st.return
            /\ result.volatility = st.volatility
            /\ result.sharpe_ratio = st.sharpe_ratio
            /\ result.return = engine_result.return
            /\ result.volatility = engine_result.volatility
            /\ result.sharpe_ratio = engine_result.sharpe_ratio

\* the weights alone are the filtered, renormalized ones
C20_RecommendWeights ==
    (call.op = "recommend_portfolio" /\ result.kind = "ok"
     /\ solver[1].success) =>
        LET x == solver[1].x
            K == {i \in Assets : x[i] >= 2}
        IN  /\ DOMAIN result.weights.num = K
            /\ \A i \in K : result.weights.num[i] = x[i]
            /\ result.weights.den = SumOver(x, K)

\* the two regimes of an efficient_frontier result: the curve, the GMVP and
\* the tangency portfolio of each, and where the regime's target solves
\* stand in solver
Regimes ==
    {[curve |-> result.ef_with_short, gmvp |-> result.gmvp_with_short,
      market |-> result.market_portfolio_with_short, offset |-> 4],
     [curve |-> result.ef_no_short, gmvp |-> result.gmvp_no_short,
      market |-> result.market_portfolio_no_short,
      offset |-> 4 + call.points]}

\* every solve of the call converged
AllConverged == \A k \in 1..Len(solver) : solver[k].success

\* C21: in each regime of efficient_frontier, the GMVP's volatility is less
\* than or equal to the volatility of every point on that regime's sampled
\* frontier curve.
C21_GmvpLeastVolatile ==
    IsCall("notebook", "efficient_frontier") =>
        \A r \in Regimes : \A k \in 1..Len(r.curve.volatility) :
            r.gmvp.volatility.num <= r.curve.volatility[k]

\* the same statement of the calls in which every solve converged
C21_ConvergedGmvpLeastVolatile ==
    (IsCall("notebook", "efficient_frontier") /\ AllConverged) =>
        \A r \in Regimes : \A k \in 1..Len(r.curve.volatility) :
            r.gmvp.volatility.num <= r.curve.volatility[k]

\* a call in which every solve converged, with a point above the GMVP
C21_ConvergedWitness ==
    /\ IsCall("notebook", "efficient_frontier")
    /\ AllConverged
    /\ call.points = 2
    /\ result.gmvp_no_short.volatility.num < result.ef_no_short.volatility[2]

\* (return - rf_rate) / volatility of the k-th point of a curve, the
\* weights of the regime being in units of 1/den
PointSharpe(curve, k, rf_rate, den) ==
    LET m == curve.returns[k].den \div (100 * den)
    IN  [num |-> curve.returns[k].num - rf_rate * den * m,
         den |-> 10 * m * curve.volatility[k]]

\* C22: in each regime of efficient_frontier, the tangency portfolio's
\* Sharpe ratio (return - rf_rate) / volatility is greater than or equal to
\* the Sharpe ratio of every sampled frontier point (target return,
\* minimized volatility) of the same regime.
C22_TangencyBestSharpe ==
    IsCall("notebook", "efficient_frontier") =>
        \A r \in Regimes : \A k \in 1..Len(r.curve.returns) :
            LET p == PointSharpe(r.curve, k, call.rf_rate, r.market.weights.den)
            IN  p.num * r.market.sharpe.den <= r.market.sharpe.num * p.den

\* the same statement of the calls in which every solve converged
C22_ConvergedTangencyBestSharpe ==
    (IsCall("notebook", "efficient_frontier") /\ AllConverged) =>
        \A r \in Regimes : \A k \in 1..Len(r.curve.returns) :
            LET p == PointSharpe(r.curve, k, call.rf_rate, r.market.weights.den)
            IN  p.num * r.market.sharpe.den <= r.market.sharpe.num * p.den

\* C23: for mean returns [0.08, 0.12] and covariance [[0.04, 0.01],
\* [0.01, 0.09]] in the shorting-allowed regime (weights sum to 1, each
\* weight in [-1, 1]), the GMVP weights that a converged minimize leaves are
\* the closed-form minimum-variance weights [8/11, 3/11] = [0.7273, 0.2727]
\* within 1e-3.
C23_TwoAssetGmvp ==
    (/\ IsCall("notebook", "efficient_frontier")
     /\ call.market = TwoAssetMarket
     /\ solver[1].success) =>
        LET w == result.gmvp_with_short.weights
        IN  /\ DOMAIN w.num = 1..2
            /\ Abs(10000 * w.num[1] - 7273 * w.den) <= 10 * w.den
            /\ Abs(10000 * w.num[2] - 2727 * w.den) <= 10 * w.den

\* the GMVP of the two assets, from a converged solve: 80/110 and 30/110
C23_Witness ==
    /\ IsCall("notebook", "efficient_frontier")
    /\ call.market = TwoAssetMarket
    /\ solver[1].success
    /\ result.gmvp_with_short.weights = [num |-> <<80, 30>>, den |-> FineScale]

\* the intervals of a profile table are non-overlapping and contiguous: each
\* min_score is the previous max_score + 1
Contiguous(profiles) ==
    /\ Len(profiles) > 0
    /\ \A i \in 1..Len(profiles) : profiles[i].min_score <= profiles[i].max_score
    /\ \A i \in 2..Len(profiles) :
          profiles[i].min_score = profiles[i - 1].max_score + 1

\* the final score of the completed assess_risk call, in tenths
FinalScore ==
    IF engine.type = "simple" THEN 10 * SumSeq(call.responses)
    ELSE SumSeq(WeightedSectionScores(engine.config.sections, call.responses))

\* the final score lies in exactly one configured interval and the call
\* returned that interval's profile
InExactlyOneBand ==
    LET P == engine.config.profiles
        M == {i \in 1..Len(P) : InBand(P[i], FinalScore, 10)}
    IN  /\ Cardinality(M) = 1
        /\ \A i \in M : /\ result.profile = P[i].name
                        /\ result.risk_aversion = P[i].risk_aversion

\* the final score lies between the lowest min_score and the highest
\* max_score of a contiguous table
InOverallRange ==
    LET P == engine.config.profiles
    IN  /\ Contiguous(P)
        /\ 10 * P[1].min_score <= FinalScore
        /\ FinalScore <= 10 * P[Len(P)].max_score

\* C24: with a profile table whose intervals are non-overlapping and
\* contiguous, every final score that SimpleScoreRiskEngine or
\* SectionBasedRiskEngine computes between the lowest min_score and the
\* highest max_score lies in exactly one configured interval and is mapped
\* to that interval's profile: the first-profile fallback is taken only for
\* scores outside the overall range.
C24_ContiguousBandsCoverScores ==
    (/\ call.op = "assess_risk"
     /\ engine.type \in {"simple", "section"}
     /\ call.form = "list"
     /\ result.kind = "ok"
     /\ InOverallRange) => InExactlyOneBand

\* the same statement of SimpleScoreRiskEngine alone
C24_SimpleBandsCoverScores ==
    (/\ IsCall("simple", "assess_risk")
     /\ call.form = "list"
     /\ result.kind = "ok"
     /\ InOverallRange) => InExactlyOneBand

\* a sum of responses in the second interval of a contiguous table
C24_SimpleWitness ==
    /\ IsCall("simple", "assess_risk")
    /\ call.form = "list"
    /\ result.kind = "ok"
    /\ InOverallRange
    /\ Len(engine.config.profiles) > 1
    /\ result.profile = engine.config.profiles[2].name

\* the k-th of n values linearly spaced from the GMVP's return g to
\* top/g.den is the value v
Spaced(v, g, top, k, n) ==
    IF n = 1 THEN v.num * g.den = g.num * v.den
    ELSE v.num * (n - 1) * g.den = ((n - k) * g.num + (k - 1) * top) * v.den

\* the volatility v is what min_volatility returned for the target return t,
\* res being its minimize result: result['fun'], and for a converged solve
\* the volatility of weights that sum to 1 and whose return is t
Minimized(v, t, res) ==
    /\ v = res.fun
    /\ res.success =>
          /\ SumW(res.x) = res.den
          /\ Dot(call.market.mean, res.x, DOMAIN res.x) * t.den
                 = t.num * 100 * res.den
          /\ v = Sqrt(Quad(call.market.cov, res.x, DOMAIN res.x))

C26_RatiosDefined ==
    call.op = "calculate_metrics" =>
        \A fund \in DOMAIN call.returns_df :
            LET s == call.returns_df[fund]
                m == result.metrics[fund]
                Finite(x) == x # NaN
                Quotient(x, by) ==
                    /\ x # NaN /\ x.kind = "quotient"
                    /\ Finite(x.return) /\ x.return = m.annualized_return
                    /\ x.risk_free_rate = call.risk_free_rate
                    /\ x.by = by /\ Finite(by) /\ by.sq.num > 0
            IN  /\ IF m.annualized_volatility = Zero \/
                      (Finite(m.annualized_volatility)
                       /\ m.annualized_volatility.sq.num = 0)
                   THEN m.sharpe_ratio = Zero
                   ELSE Quotient(m.sharpe_ratio, m.annualized_volatility)
                /\ IF Negative(s) = <<>>
                   THEN m.sortino_ratio = Zero
                   ELSE Quotient(m.sortino_ratio,
                                 TimesSqrt(SeriesStd(Negative(s)), 252))

\* the two guards of calculate_metrics: a zero annualized volatility gives
\* the Sharpe ratio 0, a series without a negative-return period gives the
\* Sortino ratio 0, and neither ratio is ever a division by zero
C26_RatiosGuarded ==
    call.op = "calculate_metrics" =>
        \A fund \in DOMAIN call.returns_df :
            LET s == call.returns_df[fund]
                m == result.metrics[fund]
            IN  /\ (m.annualized_volatility # NaN
                    /\ m.annualized_volatility.sq.num = 0)
                       => m.sharpe_ratio = Zero
                /\ Negative(s) = <<>> => m.sortino_ratio = Zero
                /\ \A x \in {m.sharpe_ratio, m.sortino_ratio} :
                      (x # NaN /\ x.kind = "quotient") => x.by.sq.num > 0

\* a series of three periods with two different negative returns: both
\* ratios are quotients
C26_GuardedWitness ==
    /\ call.op = "calculate_metrics"
    /\ \E fund \in DOMAIN call.returns_df :
          /\ Len(call.returns_df[fund]) = 3
          /\ Len(Negative(call.returns_df[fund])) = 2
          /\ result.metrics[fund].sharpe_ratio.kind = "quotient"
          /\ result.metrics[fund].sortino_ratio.kind = "quotient"

\* a series of three periods of which one has a negative return: the
\* downside deviation is the standard deviation of one value, NaN, and so is
\* the Sortino ratio
C26_OneNegativePeriod ==
    /\ call.op = "calculate_metrics"
    /\ \E fund \in DOMAIN call.returns_df :
          /\ Len(call.returns_df[fund]) = 3
          /\ Len(Negative(call.returns_df[fund])) = 1
          /\ result.metrics[fund].sharpe_ratio.kind = "quotient"
          /\ result.metrics[fund].sortino_ratio = NaN

(***************************************************************************)
(* C28: POST /assess                                                       *)
(***************************************************************************)
\* the body of the request in progress lacks the body or its responses
BodyMissesResponses == call.data = None \/ "responses" \notin DOMAIN call.data

\* C28: every POST /assess request ends in a response the handler produced:
\* 400 when the body or its 'responses' field is missing, profile and
\* risk_aversion when the assessment succeeds, an error response for every
\* other failure, an unregistered engine_type included; no exception leaves
\* the handler.
C28_AssessAlwaysResponds ==
    IsCall("api", "post_assess") =>
        /\ result.kind \in {"ok", "error"}
        /\ BodyMissesResponses <=> result.status = 400
        /\ result.kind = "ok" =>
               /\ result.status = 200
               /\ {"profile", "risk_aversion"} \subseteq DOMAIN result
        /\ result.kind = "error" /\ ~BodyMissesResponses => result.status = 500

\* C28, without the requests that name an unregistered engine_type: those
\* end in a response the handler produced.
C28_RegisteredAssessResponds ==
    /\ IsCall("api", "post_assess")
    /\ ~BodyMissesResponses
    /\ DictGet(call.data, "engine_type", "simple") \in {"simple", "weighted", "section"}
    => /\ result.kind \in {"ok", "error"}
       /\ result.status = IF result.kind = "ok" THEN 200 ELSE 500

\* a registered engine_type whose assessment raised: answered with 500
C28_RegisteredWitness ==
    /\ IsCall("api", "post_assess")
    /\ ~BodyMissesResponses
    /\ "engine_type" \in DOMAIN call.data
    /\ call.data.engine_type = "section"
    /\ result.kind = "error"
    /\ result.status = 500

\* an unregistered engine_type: the ValueError of the factory left the handler
C28_UnregisteredEscapes ==
    /\ IsCall("api", "post_assess")
    /\ ~BodyMissesResponses
    /\ DictGet(call.data, "engine_type", "simple") = "black_litterman"
    /\ result.kind = "raised"

(***************************************************************************)
(* C27: POST /complete                                                     *)
(***************************************************************************)
\* the steps of POST /complete, in the order of the claim
CompleteOrder ==
    <<"create_risk_engine", "assess_risk", "get_fund_data", "minimize">>

\* s is an initial part of t
IsPrefix(s, t) == Len(s) <= Len(t) /\ \A k \in 1..Len(s) : s[k] = t[k]

\* the engine creation of the request in progress
CompleteCreated ==
    create_risk_engine(DictGet(call.data, "risk_engine_type", "simple"),
                       call.files)

\* the assessment of the request in progress, its engine having been created
CompleteAssessed ==
    Engine_assess_risk(CompleteCreated.engine, call.data.responses.form,
                       call.data.responses.values)

\* C27: in POST /complete the steps run in the order create risk engine,
\* assess risk, fetch fund data, optimize; the risk aversion in the utility
\* that is optimized is the value the assessment returned; and when the
\* engine creation or the assessment raises, neither the retrieval of the
\* fund data nor the optimization is started and the response is an error
\* response.
C27_CompleteInOrder ==
    IsCall("api", "post_complete") /\ "responses" \in DOMAIN call.data =>
        /\ IsPrefix(result.steps, CompleteOrder)
        /\ result.steps # <<>>
        /\ result.kind = "ok" =>
               /\ result.steps = CompleteOrder
               /\ Len(solver) = 1
               /\ CompleteAssessed.kind = "ok"
               /\ result.minimize.risk_aversion = CompleteAssessed.risk_aversion
               /\ result.risk_assessment.risk_aversion
                      = CompleteAssessed.risk_aversion
               /\ result.risk_assessment.profile = CompleteAssessed.profile
        /\ (CompleteCreated.kind = "error" \/ CompleteAssessed.kind = "error") =>
               /\ result.kind = "error"
               /\ result.status = 500
               /\ \A k \in 1..Len(result.steps) :
                      result.steps[k] \notin {"get_fund_data", "minimize"}
               /\ solver = <<>>

\* a request was answered after all four steps, the assessed risk aversion
\* differing from 1.0
C27_Witness ==
    /\ IsCall("api", "post_complete")
    /\ result.kind = "ok"
    /\ result.steps = CompleteOrder
    /\ result.minimize.risk_aversion # 10
    /\ result.minimize.risk_aversion = result.risk_assessment.risk_aversion

\* the assessment of a request raised: the handler stopped there with 500
C27_WitnessAssessmentRaised ==
    /\ IsCall("api", "post_complete")
    /\ result.kind = "error"
    /\ result.status = 500
    /\ result.steps = <<"create_risk_engine", "assess_risk">>
    /\ solver = <<>>

\* the engine creation of a request raised: the handler stopped there with 500
C27_WitnessCreationRaised ==
    /\ IsCall("api", "post_complete")
    /\ result.kind = "error"
    /\ result.steps = <<"create_risk_engine">>

(***************************************************************************)
(* C29: the threshold filter of MeanVarianceEngine with short positions    *)
(***************************************************************************)
\* the threshold of the mean-variance engine under call
MinAllocationThreshold ==
    ConfigGet(engine.config, "min_allocation_threshold", DefaultMinAllocation)

\* a mean-variance call that allowed short positions, the engine having a
\* positive threshold that some solved weight reaches
ShortCallFiltered ==
    /\ IsCall("mean_variance", "optimize_portfolio")
    /\ call.allow_short
    /\ MinAllocationThreshold > 0
    /\ \E i \in Assets : solver[1].x[i] >= MinAllocationThreshold

\* C29: with allow_short = true and a positive min_allocation_threshold that
\* at least one solved weight reaches, the returned weights contain no
\* negative weight: every short position of the solved portfolio is dropped
\* by the filter and the remaining positive weights are renormalized, while
\* 'utility' and 'full_weights' are those of the unfiltered solution.
C29_ShortsDroppedByFilter ==
    ShortCallFiltered =>
        LET x == solver[1].x
            w == result.weights
        IN  /\ \A i \in DOMAIN w.num : w.num[i] > 0
            /\ w.den > 0
            /\ \A i \in Assets : x[i] < 0 => i \notin DOMAIN w.num
            /\ DOMAIN w.num = {i \in Assets : x[i] >= MinAllocationThreshold}
            /\ \A i \in DOMAIN w.num : w.num[i] = x[i]
            /\ w.den = SumOver(x, DOMAIN w.num)
            /\ Total(w) = w.den
            /\ "full_weights" \in DOMAIN result
            /\ result.full_weights = [num |-> x, den |-> Scale]
            /\ result.utility = Utility(call.market, call.risk_aversion, x)

\* a converged solve with a short position of at least the threshold was
\* filtered: the short position is not among the returned weights
C29_Witness ==
    /\ ShortCallFiltered
    /\ solver[1].success
    /\ \E i \in Assets : 0 - solver[1].x[i] >= MinAllocationThreshold
    /\ \E i \in Assets : i \notin DOMAIN result.weights.num
    /\ result.full_weights.num # result.weights.num

(***************************************************************************)
(* C30: the cache of DataEngine.get_fund_data                              *)
(***************************************************************************)
\* the operations of the log of the call that are of the kinds ops
Logged(log, ops) == {k \in 1..Len(log) : log[k].op \in ops}

\* C30: with use_cache = true get_fund_data fetches from the remote source
\* only when the cache file of the requested date range is missing, older
\* than cache_expiry_days, or cannot be read together with its metadata
\* file; after such a fetch the cache is written; a call for a date range
\* whose files were written within the expiry period returns the cached
\* prices without fetching, whatever update_fund_config made of the fund
\* list since.  With use_cache = false the cache is neither read nor
\* written.
C30_CacheDiscipline ==
    [][engine.type = "data" /\ call = Idle /\ call'.op = "get_fund_data" =>
          LET range == call'.range
              e == engine.cache[range]
              expiry == engine.config.cache_expiry_days * TicksPerDay
              missing == e = None
              older == ~missing /\ engine.now - e.mtime > expiry
              unreadable == ~missing /\ call'.disk # "ok"
              within == ~missing /\ engine.now - e.mtime <= expiry
              fetches == Logged(opened', {"fetch"})
              reads == Logged(opened', {"exists", "read_pickle",
                                        "read_metadata"})
              writes == Logged(opened', {"write_pickle", "write_metadata"})
          IN  /\ result'.fetched <=> fetches # {}
              /\ \A q \in DateRanges \ {range} :
                    engine'.cache[q] = engine.cache[q]
              /\ engine'.config = engine.config
              /\ IF call'.use_cache
                 THEN /\ result'.fetched => missing \/ older \/ unreadable
                      /\ result'.fetched =>
                            /\ result'.prices =
                                   [funds |-> engine.config.funds,
                                    range |-> range, asof |-> engine.now]
                            /\ engine'.cache[range] =
                                   [prices |-> result'.prices,
                                    mtime  |-> engine.now]
                            /\ \A f \in fetches :
                                  \E w \in writes : w > f
                      /\ within /\ ~unreadable =>
                            /\ ~result'.fetched
                            /\ result'.prices = e.prices
                            /\ writes = {}
                            /\ engine' = engine
                 ELSE /\ result'.fetched
                      /\ reads = {}
                      /\ writes = {}
                      /\ engine' = engine]_vars

\* a call within the expiry period was answered from the cache, with the
\* prices of a fund list that update_fund_config has replaced since
C30_Witness ==
    /\ IsCall("data", "get_fund_data")
    /\ call.use_cache
    /\ ~result.fetched
    /\ result.prices.funds # engine.config.funds
    /\ result.prices.asof < engine.now

\* a call found the file older than cache_expiry_days, fetched and wrote
\* the cache anew
C30_WitnessExpired ==
    /\ IsCall("data", "get_fund_data")
    /\ call.use_cache
    /\ call.disk = "ok"
    /\ result.fetched
    /\ Len(opened) = 4
    /\ engine.cache[call.range].mtime = engine.now
    /\ engine.now >= 2 * TicksPerDay

\* a call found the metadata file unreadable and fetched
C30_WitnessUnreadable ==
    /\ IsCall("data", "get_fund_data")
    /\ call.use_cache
    /\ call.disk = "no_metadata"
    /\ result.fetched

\* a call with use_cache = false fetched although the cache held the range
C30_WitnessNoCache ==
    /\ IsCall("data", "get_fund_data")
    /\ ~call.use_cache
    /\ engine.cache[call.range] # None
    /\ result.prices # engine.cache[call.range].prices

====
